---- MODULE Spec2Model ----
(***************************************************************************)
(* A model of the streaming aggregation core of the xilian platform        *)
(* (rust-modules/data-aggregator/src/lib.rs): WelfordAccumulator,          *)
(* TimeWindowAggregator, DimensionKey, MultiDimensionAggregator,          *)
(* StreamAggregator and TDigest.                                           *)
(*                                                                         *)
(* f64 values are modelled as exact rationals [n |-> numerator,            *)
(* d |-> denominator] in lowest terms, with +infinity = 1/0 and            *)
(* -infinity = -1/0; rounding is not modelled.  i64 timestamps are         *)
(* unbounded integers (no claim here depends on wrap-around).              *)
(* Option<T> is a sequence of length 0 (None) or 1 (Some).                 *)
(***************************************************************************)
EXTENDS Integers, Sequences, FiniteSets, TLC

VARIABLES
    twa,            \* SpecWin: the TimeWindowAggregator
    calls,          \* SpecWin: the add_value calls made so far, [ts, v]
    evicted,        \* SpecWin: starts of the windows cleanup has removed
    stream,         \* SpecStream: the StreamAggregator
    stream_calls,   \* SpecStream: the process and flush calls made so far,
                    \* each with what it returned
    digest,         \* SpecDigest: the TDigest
    batch,          \* SpecMulti: the points handed to add_points
    multi_config,   \* SpecMulti: MultiDimensionAggregator.config
    aggregators,    \* SpecMulti: the DashMap, DimensionKey -> aggregator
    shard_lock,     \* SpecMulti: per DashMap shard, the point whose call
                    \* holds its write lock (0: none)
    entry_lock,     \* SpecMulti: per key, the point whose call holds the
                    \* entry's RwLock for writing (0: none)
    pc,             \* SpecMulti: per point, where its add_point call is
    key_of,         \* SpecMulti: per point, the local `key` of add_point
    vacant,         \* SpecMulti: per point, whether entry() found no entry
    created,        \* SpecMulti: the keys TimeWindowAggregator::new was
                    \* called for, in order
    aborted,        \* SpecWin, SpecConfig: add_value has panicked
    welford,        \* SpecAcc: the WelfordAccumulator
    welford_in,     \* SpecAcc: the values added and not removed, in
                    \* arrival order
    welford_ops,    \* SpecAcc: the add, remove and merge calls made so far
    key_a,          \* SpecKey: a DimensionKey
    key_b,          \* SpecKey: another DimensionKey
    operations,     \* SpecPipe: AggregationPipeline.operations
    execution,      \* SpecPipe: the last execute call, its points and what
                    \* it returned (<<>>: none yet)
    processor,      \* SpecSignal: the SignalProcessor
    sig_last,       \* SpecSignal: the last call on the processor, with its
                    \* arguments and outcome (<<>>: none yet)
    callers,        \* SpecLock: per thread, the MultiDimensionAggregator
                    \* call it makes and where it is in it
    shard_rw,       \* SpecLock: per DashMap shard, the holders of its
                    \* reader/writer lock
    entry_rw        \* SpecLock: per key in the map, the holders of the
                    \* entry's RwLock

winVars == <<twa, calls, evicted, aborted>>
streamVars == <<stream, stream_calls>>
multiVars == <<batch, multi_config, aggregators, shard_lock, entry_lock, pc, key_of,
               vacant, created>>
accVars == <<welford, welford_in, welford_ops>>
keyVars == <<key_a, key_b>>
pipeVars == <<operations, execution>>
sigVars == <<processor, sig_last>>
lockVars == <<callers, shard_rw, entry_rw>>
vars == <<twa, calls, evicted, stream, stream_calls, digest, batch,
          multi_config, aggregators, shard_lock, entry_lock, pc, key_of, vacant, created,
          aborted, welford, welford_in, welford_ops, key_a, key_b,
          operations, execution, processor, sig_last,
          callers, shard_rw, entry_rw>>

\* ---------------------------------------------------------------- bounds

\* threads calling one MultiDimensionAggregator in SpecLock
MaxCallers == 2
\* samples per block handed to the SignalProcessor in SpecSignal
MaxBlockLen == 3
\* blocks per process_batch call
MaxBatch == 2
\* stages per AggregationPipeline in SpecPipe
MaxStages == 3
\* with_dimension calls per DimensionKey in SpecKey
MaxDims == 2
\* add, remove and merge calls per run of SpecAcc
MaxAccOps == 4
\* add_value calls per run of SpecWin
MaxAdds == 3
\* the largest timestamp offered to add_value
MaxTs == 5
\* max_window_count is 1 or MaxWindows
MaxWindows == 2
\* window_size_ms, slide_size_ms and session_gap_ms of the configurations
WinSize == 2
SlideSize == 1
SessionGap == 1
\* process and flush calls per run of SpecStream
MaxStreamOps == 3
\* window_size_ms of the StreamAggregator; slide_size_ms is 1 or this
StreamSize == 2
\* max_centroids ranges over 1 .. MaxCentroids
MaxCentroids == 2
\* add and merge stop once total_weight would exceed this
MaxTotalWeight == 6
\* points per add_points batch, and add_point calls running at the same time
BatchLen == 2
NumWorkers == 2

\* timestamps offered to add_value: one negative, then 0 .. MaxTs
Timestamps == (0 - 1)..MaxTs
\* sample values
Values == {1, 2}

\* ------------------------------------------------------------ arithmetic

None == <<>>
Some(x) == <<x>>

Abs(x) == IF x < 0 THEN 0 - x ELSE x

RECURSIVE GCD(_, _)
GCD(a, b) == IF b = 0 THEN a ELSE GCD(b, a % b)

Range(s) == {s[i] : i \in DOMAIN s}

\* an f64 holding the integer i
F(i) == [n |-> i, d |-> 1]
INFINITY == [n |-> 1, d |-> 0]
NEG_INFINITY == [n |-> 0 - 1, d |-> 0]

FNorm(num, den) ==
    LET g == GCD(Abs(num), den)
    IN  [n |-> num \div g, d |-> den \div g]

FAdd(a, b) == FNorm(a.n * b.d + b.n * a.d, a.d * b.d)
FSub(a, b) == FNorm(a.n * b.d - b.n * a.d, a.d * b.d)
FMul(a, b) == FNorm(a.n * b.n, a.d * b.d)
FDiv(a, b) ==
    IF b.n > 0 THEN FNorm(a.n * b.d, a.d * b.n)
               ELSE FNorm(0 - (a.n * b.d), a.d * (0 - b.n))
FLe(a, b) ==
    IF a.d = 0 /\ b.d = 0 THEN a.n <= b.n ELSE a.n * b.d <= b.n * a.d
FLt(a, b) == ~FLe(b, a)
FMin(a, b) == IF FLe(a, b) THEN a ELSE b
FMax(a, b) == IF FLe(b, a) THEN a ELSE b

\* Rust's i64 `/`: the quotient truncated toward zero (b # 0)
TruncDiv(a, b) ==
    IF (a >= 0) = (b > 0) THEN Abs(a) \div Abs(b)
                          ELSE 0 - (Abs(a) \div Abs(b))

\* ---------------------------------------------------- WelfordAccumulator

WelfordAccumulator_new ==
    [count |-> 0, mean |-> F(0), m2 |-> F(0), min |-> INFINITY,
     max |-> NEG_INFINITY, sum |-> F(0), first |-> None, last |-> None]

\* add that overwrites min and max with the value
Welford_add_overwriting(acc, value) ==
    LET count == acc.count + 1
        delta == FSub(value, acc.mean)
        mean == FAdd(acc.mean, FDiv(delta, F(count)))
        delta2 == FSub(value, mean)
    IN  [count |-> count,
         mean |-> mean,
         m2 |-> FAdd(acc.m2, FMul(delta, delta2)),
         min |-> value,
         max |-> value,
         sum |-> FAdd(acc.sum, value),
         first |-> IF acc.first = None THEN Some(value) ELSE acc.first,
         last |-> Some(value)]

Welford_add(acc, value) ==
    LET count == acc.count + 1
        delta == FSub(value, acc.mean)
        mean == FAdd(acc.mean, FDiv(delta, F(count)))
        delta2 == FSub(value, mean)
    IN  [count |-> count,
         mean |-> mean,
         m2 |-> FAdd(acc.m2, FMul(delta, delta2)),
         min |-> FMin(acc.min, value),
         max |-> FMax(acc.max, value),
         sum |-> FAdd(acc.sum, value),
         first |-> IF acc.first = None THEN Some(value) ELSE acc.first,
         last |-> Some(value)]

\* a remove that decrements the count and leaves the other fields alone
Welford_remove_count_only(acc, value) ==
    IF acc.count = 0 THEN acc ELSE [acc EXCEPT !.count = @ - 1]

\* a remove that retracts count, sum and mean and leaves m2 as it was
Welford_remove_stale_m2(acc, value) ==
    IF acc.count = 0 THEN acc
    ELSE LET count == acc.count - 1
             sum == FSub(acc.sum, value)
         IN  IF count = 0
             THEN [acc EXCEPT !.count = 0, !.sum = sum, !.mean = F(0),
                              !.m2 = F(0), !.min = INFINITY,
                              !.max = NEG_INFINITY]
             ELSE [acc EXCEPT !.count = count, !.sum = sum,
                              !.mean = FSub(acc.mean,
                                            FDiv(FSub(value, acc.mean),
                                                 F(count)))]

Welford_remove(acc, value) ==
    IF acc.count = 0 THEN acc
    ELSE LET count == acc.count - 1
             sum == FSub(acc.sum, value)
         IN  IF count = 0
             THEN [acc EXCEPT !.count = 0, !.sum = sum, !.mean = F(0),
                              !.m2 = F(0), !.min = INFINITY,
                              !.max = NEG_INFINITY]
             ELSE LET delta == FSub(value, acc.mean)
                      mean == FSub(acc.mean, FDiv(delta, F(count)))
                      delta2 == FSub(value, mean)
                  IN  [acc EXCEPT !.count = count, !.sum = sum,
                                  !.mean = mean,
                                  !.m2 = FSub(acc.m2, FMul(delta, delta2))]

\* merge that leaves out the between-groups term of m2
Welford_merge_within(acc, other) ==
    IF other.count = 0 THEN acc
    ELSE LET combined_count == acc.count + other.count
         IN  [count |-> combined_count,
              mean |-> FDiv(FAdd(FMul(F(acc.count), acc.mean),
                                 FMul(F(other.count), other.mean)),
                            F(combined_count)),
              m2 |-> FAdd(acc.m2, other.m2),
              min |-> FMin(acc.min, other.min),
              max |-> FMax(acc.max, other.max),
              sum |-> FAdd(acc.sum, other.sum),
              first |-> IF acc.first = None THEN other.first ELSE acc.first,
              last |-> IF other.last # None THEN other.last ELSE acc.last]

Welford_merge(acc, other) ==
    IF other.count = 0 THEN acc
    ELSE LET combined_count == acc.count + other.count
             delta == FSub(other.mean, acc.mean)
         IN  [count |-> combined_count,
              mean |-> FDiv(FAdd(FMul(F(acc.count), acc.mean),
                                 FMul(F(other.count), other.mean)),
                            F(combined_count)),
              m2 |-> FAdd(FAdd(acc.m2, other.m2),
                          FDiv(FMul(FMul(delta, delta),
                                    FMul(F(acc.count), F(other.count))),
                               F(combined_count))),
              min |-> FMin(acc.min, other.min),
              max |-> FMax(acc.max, other.max),
              sum |-> FAdd(acc.sum, other.sum),
              first |-> IF acc.first = None THEN other.first ELSE acc.first,
              last |-> IF other.last # None THEN other.last ELSE acc.last]

\* variance, and the AggregateResult of an accumulator.  std_dev is the
\* square root of the variance, kept symbolically; percentiles is always
\* the empty map.
\* the population variance, m2 / count
Welford_variance_population(acc) ==
    IF acc.count > 1 THEN FDiv(acc.m2, F(acc.count)) ELSE F(0)

Welford_variance(acc) ==
    IF acc.count > 1 THEN FDiv(acc.m2, F(acc.count - 1)) ELSE F(0)

\* get_result that reports min and max as stored
Welford_get_result_raw(acc) ==
    [window_start |-> 0,
     window_end |-> 0,
     count |-> acc.count,
     sum |-> acc.sum,
     mean |-> acc.mean,
     min |-> acc.min,
     max |-> acc.max,
     variance |-> Welford_variance(acc),
     std_dev |-> [sqrt |-> Welford_variance(acc)],
     first |-> acc.first,
     last |-> acc.last,
     percentiles |-> <<>>]

Welford_get_result(acc) ==
    [window_start |-> 0,
     window_end |-> 0,
     count |-> acc.count,
     sum |-> acc.sum,
     mean |-> acc.mean,
     min |-> IF acc.min = INFINITY THEN F(0) ELSE acc.min,
     max |-> IF acc.max = NEG_INFINITY THEN F(0) ELSE acc.max,
     variance |-> Welford_variance(acc),
     std_dev |-> [sqrt |-> Welford_variance(acc)],
     first |-> acc.first,
     last |-> acc.last,
     percentiles |-> <<>>]

\* ----------------------------------------------------------- WindowConfig

WindowConfig_tumbling(window_size_ms) ==
    [window_type |-> "Tumbling", window_size_ms |-> window_size_ms,
     slide_size_ms |-> None, session_gap_ms |-> None,
     max_window_count |-> 1000]

WindowConfig_sliding(window_size_ms, slide_size_ms) ==
    [window_type |-> "Sliding", window_size_ms |-> window_size_ms,
     slide_size_ms |-> Some(slide_size_ms), session_gap_ms |-> None,
     max_window_count |-> 1000]

WindowConfig_session(session_gap_ms) ==
    [window_type |-> "Session", window_size_ms |-> 0,
     slide_size_ms |-> None, session_gap_ms |-> Some(session_gap_ms),
     max_window_count |-> 1000]

\* --------------------------------------------------- TimeWindowAggregator

TimeWindowAggregator_new(config) ==
    [config |-> config, windows |-> <<>>, current_window_start |-> 0]

get_window_start(agg, timestamp) ==
    CASE agg.config.window_type = "Tumbling" ->
            TruncDiv(timestamp, agg.config.window_size_ms)
                * agg.config.window_size_ms
      [] agg.config.window_type = "Sliding" ->
            LET slide == IF agg.config.slide_size_ms = None
                         THEN agg.config.window_size_ms
                         ELSE agg.config.slide_size_ms[1]
            IN  TruncDiv(timestamp, slide) * slide
      [] agg.config.window_type = "Session" ->
            agg.current_window_start

\* i64 division by zero panics: get_window_start divides by window_size_ms
\* (Tumbling) or by the slide (Sliding)
get_window_start_panics(agg) ==
    \/ /\ agg.config.window_type = "Tumbling"
       /\ agg.config.window_size_ms = 0
    \/ /\ agg.config.window_type = "Sliding"
       /\ IF agg.config.slide_size_ms = None
          THEN agg.config.window_size_ms = 0
          ELSE agg.config.slide_size_ms[1] = 0

\* retain of the windows whose start is strictly after the cutoff
cleanup_old_windows_exclusive(agg, current_time) ==
    LET max_age == agg.config.window_size_ms * agg.config.max_window_count
        cutoff == current_time - max_age
    IN  [agg EXCEPT !.windows =
            [s \in {x \in DOMAIN agg.windows : x > cutoff} |->
                agg.windows[s]]]

\* BTreeMap::retain of the windows whose start is at least the cutoff
cleanup_old_windows(agg, current_time) ==
    LET max_age == agg.config.window_size_ms * agg.config.max_window_count
        cutoff == current_time - max_age
    IN  [agg EXCEPT !.windows =
            [s \in {x \in DOMAIN agg.windows : x >= cutoff} |->
                agg.windows[s]]]

WindowState_new(agg, window_start) ==
    [accumulator |-> WelfordAccumulator_new,
     values |-> <<>>,
     start_time |-> window_start,
     end_time |-> window_start + agg.config.window_size_ms]

\* add_value up to, and not including, its trailing cleanup_old_windows
add_value_insert(agg, timestamp, value) ==
    LET window_start == get_window_start(agg, timestamp)
        cws == IF agg.current_window_start = 0
               THEN window_start ELSE agg.current_window_start
        window == IF window_start \in DOMAIN agg.windows
                  THEN agg.windows[window_start]
                  ELSE WindowState_new(agg, window_start)
        updated == [window EXCEPT
                        !.accumulator = Welford_add(@, value),
                        !.values = Append(@, <<timestamp, value>>)]
    IN  [agg EXCEPT
            !.current_window_start = cws,
            !.windows = [s \in DOMAIN agg.windows \cup {window_start} |->
                            IF s = window_start THEN updated
                            ELSE agg.windows[s]]]

add_value(agg, timestamp, value) ==
    cleanup_old_windows(add_value_insert(agg, timestamp, value), timestamp)

\* the AggregateResult of one window, stamped with its bounds
window_result(w) ==
    [Welford_get_result(w.accumulator) EXCEPT
        !.window_start = w.start_time, !.window_end = w.end_time]

\* the keys of a BTreeMap in iteration order (ascending)
RECURSIVE keys_ascending(_)
keys_ascending(S) ==
    IF S = {} THEN <<>>
    ELSE LET lo == CHOOSE x \in S : \A y \in S : x <= y
         IN  <<lo>> \o keys_ascending(S \ {lo})

get_current_aggregate(agg) ==
    LET keys == keys_ascending(DOMAIN agg.windows)
    IN  IF keys = <<>> THEN None
        ELSE Some(window_result(agg.windows[keys[Len(keys)]]))

get_all_aggregates(agg) ==
    LET keys == keys_ascending(DOMAIN agg.windows)
    IN  [i \in 1..Len(keys) |-> window_result(agg.windows[keys[i]])]

\* BTreeMap::range(start..end) panics when start > end
range_panics(start, end) == start > end

\* get_aggregates_in_range: whether the call panicked, and what it returned
\* when it did not
get_aggregates_in_range(agg, start, end) ==
    IF range_panics(start, end)
    THEN [panic |-> TRUE, results |-> <<>>]
    ELSE LET keys == keys_ascending({k \in DOMAIN agg.windows :
                                        start <= k /\ k < end})
         IN  [panic |-> FALSE,
              results |-> [i \in 1..Len(keys) |->
                              window_result(agg.windows[keys[i]])]]

\* ------------------------------------------------------- StreamAggregator

StreamAggregator_new(window_size_ms, slide_size_ms) ==
    [window_size_ms |-> window_size_ms,
     slide_size_ms |-> slide_size_ms,
     buffer |-> <<>>,
     accumulator |-> WelfordAccumulator_new,
     last_emit_time |-> 0]

\* an eviction loop that also drops the sample on the window's edge
RECURSIVE evict_expired_inclusive(_, _)
evict_expired_inclusive(s, cutoff) ==
    IF s.buffer # <<>> /\ Head(s.buffer)[1] <= cutoff
    THEN evict_expired_inclusive(
            [s EXCEPT !.buffer = Tail(@),
                      !.accumulator = Welford_remove(@, Head(s.buffer)[2])],
            cutoff)
    ELSE s

\* the `while let Some(&(ts, val)) = self.buffer.front()` loop of process
RECURSIVE evict_expired(_, _)
evict_expired(s, cutoff) ==
    IF s.buffer # <<>> /\ Head(s.buffer)[1] < cutoff
    THEN evict_expired(
            [s EXCEPT !.buffer = Tail(@),
                      !.accumulator = Welford_remove(@, Head(s.buffer)[2])],
            cutoff)
    ELSE s

\* the condition under which process takes last_emit_time to be unset
emit_time_unset(s) == s.last_emit_time = 0

\* process: [self |-> the aggregator afterwards, ret |-> Option<result>]
process(s, timestamp, value) ==
    LET pushed == [s EXCEPT !.buffer = Append(@, <<timestamp, value>>),
                            !.accumulator = Welford_add(@, value)]
        cutoff == timestamp - s.window_size_ms
        kept == evict_expired(pushed, cutoff)
        armed == IF emit_time_unset(kept)
                 THEN [kept EXCEPT !.last_emit_time = timestamp] ELSE kept
    IN  IF timestamp - armed.last_emit_time >= armed.slide_size_ms
        THEN [self |-> [armed EXCEPT !.last_emit_time = timestamp],
              ret |-> Some([Welford_get_result(armed.accumulator) EXCEPT
                                !.window_start = cutoff,
                                !.window_end = timestamp])]
        ELSE [self |-> armed, ret |-> None]

\* a flush that clears the ring and keeps the accumulator
flush_keeping_accumulator(s) ==
    [self |-> [s EXCEPT !.buffer = <<>>],
     ret |-> Welford_get_result(s.accumulator)]

flush(s) ==
    [self |-> [s EXCEPT !.buffer = <<>>,
                        !.accumulator = WelfordAccumulator_new],
     ret |-> Welford_get_result(s.accumulator)]

buffer_size(s) == Len(s.buffer)

\* ---------------------------------------------------------------- TDigest

TDigest_new(max_centroids) ==
    [centroids |-> <<>>, max_centroids |-> max_centroids,
     total_weight |-> F(0)]

\* Vec::sort_by on the centroid means: a stable sort, as an insertion sort
RECURSIVE insert_by_mean(_, _)
insert_by_mean(sorted, c) ==
    IF sorted = <<>> THEN <<c>>
    ELSE IF FLe(Head(sorted)[1], c[1])
         THEN <<Head(sorted)>> \o insert_by_mean(Tail(sorted), c)
         ELSE <<c>> \o sorted

RECURSIVE sort_by_mean(_)
sort_by_mean(cs) ==
    IF cs = <<>> THEN <<>>
    ELSE insert_by_mean(sort_by_mean(SubSeq(cs, 1, Len(cs) - 1)), cs[Len(cs)])

\* the coalescing loop with the plain average of the two means
RECURSIVE coalesce_unweighted(_, _, _, _, _)
coalesce_unweighted(rest, new_centroids, current_mean, current_weight, limit) ==
    IF rest = <<>>
    THEN Append(new_centroids, <<current_mean, current_weight>>)
    ELSE LET mean == Head(rest)[1]
             weight == Head(rest)[2]
             combined_weight == FAdd(current_weight, weight)
         IN  IF FLe(combined_weight, limit)
             THEN coalesce_unweighted(Tail(rest), new_centroids,
                           FDiv(FAdd(current_mean, mean), F(2)),
                           combined_weight, limit)
             ELSE coalesce_unweighted(Tail(rest),
                           Append(new_centroids,
                                  <<current_mean, current_weight>>),
                           mean, weight, limit)

\* the `for &(mean, weight) in &self.centroids[1..]` loop of compress
RECURSIVE coalesce(_, _, _, _, _)
coalesce(rest, new_centroids, current_mean, current_weight, limit) ==
    IF rest = <<>>
    THEN Append(new_centroids, <<current_mean, current_weight>>)
    ELSE LET mean == Head(rest)[1]
             weight == Head(rest)[2]
             combined_weight == FAdd(current_weight, weight)
         IN  IF FLe(combined_weight, limit)
             THEN coalesce(Tail(rest), new_centroids,
                           FDiv(FAdd(FMul(current_mean, current_weight),
                                     FMul(mean, weight)),
                                combined_weight),
                           combined_weight, limit)
             ELSE coalesce(Tail(rest),
                           Append(new_centroids,
                                  <<current_mean, current_weight>>),
                           mean, weight, limit)

\* compress that sorts and coalesces nothing
compress_sorting_only(td) ==
    IF td.centroids = <<>> THEN td
    ELSE [td EXCEPT !.centroids = sort_by_mean(td.centroids)]

compress(td) ==
    IF td.centroids = <<>> THEN td
    ELSE LET sorted == sort_by_mean(td.centroids)
         IN  [td EXCEPT !.centroids =
                coalesce(Tail(sorted), <<>>, sorted[1][1], sorted[1][2],
                         FDiv(td.total_weight, F(td.max_centroids)))]

TDigest_add(td, value, weight) ==
    LET pushed == [td EXCEPT !.centroids = Append(@, <<value, weight>>),
                             !.total_weight = FAdd(@, weight)]
    IN  IF Len(pushed.centroids) > pushed.max_centroids * 2
        THEN compress(pushed) ELSE pushed

\* the `for &(mean, weight) in &self.centroids` loop of percentile
RECURSIVE percentile_walk(_, _, _)
percentile_walk(cs, cumulative_weight, target_weight) ==
    IF cs = <<>> THEN None
    ELSE LET cum == FAdd(cumulative_weight, Head(cs)[2])
         IN  IF FLe(target_weight, cum) THEN Some(Head(cs)[1])
             ELSE percentile_walk(Tail(cs), cum, target_weight)

\* percentile that scales p by 100 twice
percentile_rescaled(td, p) ==
    IF td.centroids = <<>> THEN F(0)
    ELSE LET target_weight == FDiv(FMul(td.total_weight, p), F(10000))
             found == percentile_walk(td.centroids, F(0), target_weight)
         IN  IF found # None THEN found[1]
             ELSE td.centroids[Len(td.centroids)][1]

percentile(td, p) ==
    IF td.centroids = <<>> THEN F(0)
    ELSE LET target_weight == FDiv(FMul(td.total_weight, p), F(100))
             found == percentile_walk(td.centroids, F(0), target_weight)
         IN  IF found # None THEN found[1]
             ELSE td.centroids[Len(td.centroids)][1]

RECURSIVE TDigest_merge(_, _)
TDigest_merge(td, other_centroids) ==
    IF other_centroids = <<>> THEN td
    ELSE TDigest_merge(
            TDigest_add(td, Head(other_centroids)[1], Head(other_centroids)[2]),
            Tail(other_centroids))

\* ----------------------------------------------------------- DimensionKey

\* the tag names in use, in String order
TagNames == <<"device", "sensor">>
NameRank(name) == CHOOSE i \in DOMAIN TagNames : TagNames[i] = name

\* Vec::sort_by(|a, b| a.0.cmp(&b.0)): a stable sort on the name
RECURSIVE insert_by_name(_, _)
insert_by_name(sorted, d) ==
    IF sorted = <<>> THEN <<d>>
    ELSE IF NameRank(Head(sorted)[1]) <= NameRank(d[1])
         THEN <<Head(sorted)>> \o insert_by_name(Tail(sorted), d)
         ELSE <<d>> \o sorted

RECURSIVE sort_by_name(_)
sort_by_name(ds) ==
    IF ds = <<>> THEN <<>>
    ELSE insert_by_name(sort_by_name(SubSeq(ds, 1, Len(ds) - 1)), ds[Len(ds)])

DimensionKey_new == <<>>

\* push the pair, then sort_by name
with_dimension(dimensions, key, value) ==
    sort_by_name(Append(dimensions, <<key, value>>))

\* the orders in which a HashMap<String, String> may hand out its pairs
tags_iter(tags) ==
    { [i \in 1..Cardinality(DOMAIN tags) |-> <<f[i], tags[f[i]]>>] :
        f \in {g \in [1..Cardinality(DOMAIN tags) -> DOMAIN tags] :
                    \A i, j \in DOMAIN g : i # j => g[i] # g[j]} }

\* from_tags, given the pairs in the order tags.iter() yielded them
from_tags_unsorted(dimensions) == dimensions
from_tags(dimensions) == sort_by_name(dimensions)

\* ----------------------------------------------- MultiDimensionAggregator

\* the DashMap shard a key hashes to (the hasher is not fixed by the code;
\* this one puts one-tag keys together and two-tag keys elsewhere)
NumShards == 2
determine_shard(key) == (Len(key) % NumShards) + 1

\* DashMap::entry blocks until the key's shard is write-locked by nobody
shard_unguarded(locks, shard) == TRUE
shard_lock_free(locks, shard) == locks[shard] = 0

\* RwLock::write blocks until the entry's lock is held by nobody
entry_lock_free(locks, key) == locks[key] = 0

\* a map with key bound to value
MapPut(m, key, value) ==
    [k \in DOMAIN m \cup {key} |-> IF k = key THEN value ELSE m[k]]

\* Entry::or_insert_with: a vacant entry gets a new aggregator
or_insert_with(aggs, key, is_vacant, config) ==
    IF is_vacant THEN MapPut(aggs, key, TimeWindowAggregator_new(config))
    ELSE aggs

\* add_point run alone, start to end, on the map aggs
add_point(aggs, point, config) ==
    LET key == from_tags(CHOOSE it \in tags_iter(point.tags) : TRUE)
        present == or_insert_with(aggs, key, key \notin DOMAIN aggs, config)
    IN  [present EXCEPT ![key] = add_value(@, point.timestamp, point.value)]

\* add_point over the points in sequence order, one after the other
RECURSIVE add_points_sequential(_, _, _)
add_points_sequential(aggs, points, config) ==
    IF points = <<>> THEN aggs
    ELSE add_points_sequential(add_point(aggs, Head(points), config),
                               Tail(points), config)

\* ================================================================ SpecWin
\* One TimeWindowAggregator, of any of the three kinds, fed by add_value.

WinConfigs ==
    { [c EXCEPT !.max_window_count = m] :
        c \in {WindowConfig_tumbling(WinSize),
               WindowConfig_sliding(WinSize, SlideSize),
               WindowConfig_session(SessionGap)},
        m \in {1, MaxWindows} }

StreamIdle ==
    /\ stream = <<>>
    /\ stream_calls = <<>>

DigestIdle == digest = <<>>

AccIdle ==
    /\ welford = <<>>
    /\ welford_in = <<>>
    /\ welford_ops = <<>>

KeyIdle ==
    /\ key_a = <<>>
    /\ key_b = <<>>

PipeIdle ==
    /\ operations = <<>>
    /\ execution = <<>>

SigIdle ==
    /\ processor = <<>>
    /\ sig_last = <<>>

LockIdle ==
    /\ callers = <<>>
    /\ shard_rw = <<>>
    /\ entry_rw = <<>>

MultiIdle ==
    /\ batch = <<>>
    /\ multi_config = <<>>
    /\ aggregators = <<>>
    /\ shard_lock = <<>>
    /\ entry_lock = <<>>
    /\ pc = <<>>
    /\ key_of = <<>>
    /\ vacant = <<>>
    /\ created = <<>>

InitWin ==
    /\ twa \in {TimeWindowAggregator_new(c) : c \in WinConfigs}
    /\ calls = <<>>
    /\ evicted = {}
    /\ aborted = FALSE
    /\ StreamIdle
    /\ DigestIdle
    /\ MultiIdle
    /\ AccIdle
    /\ KeyIdle
    /\ PipeIdle
    /\ SigIdle
    /\ LockIdle

AddValue(ts, v) ==
    /\ Len(calls) < MaxAdds
    /\ ~aborted
    /\ calls' = Append(calls, [ts |-> ts, v |-> v])
    /\ IF get_window_start_panics(twa)
       THEN /\ aborted' = TRUE
            /\ UNCHANGED <<twa, evicted>>
       ELSE /\ twa' = add_value(twa, ts, F(v))
            /\ evicted' = evicted \cup
                    (DOMAIN add_value_insert(twa, ts, F(v)).windows
                        \ DOMAIN twa'.windows)
            /\ UNCHANGED aborted
    /\ UNCHANGED <<streamVars, digest, multiVars, accVars, keyVars, pipeVars, sigVars, lockVars>>

WinReset ==
    /\ calls # <<>>
    /\ ~aborted
    /\ twa' = [twa EXCEPT !.windows = <<>>, !.current_window_start = 0]
    /\ calls' = <<>>
    /\ evicted' = {}
    /\ UNCHANGED aborted
    /\ UNCHANGED <<streamVars, digest, multiVars, accVars, keyVars, pipeVars, sigVars, lockVars>>

NextWin ==
    \/ \E ts \in Timestamps, v \in Values : AddValue(ts, v)
    \/ WinReset

SpecWin == InitWin /\ [][NextWin]_vars

LastCall == calls[Len(calls)]

\* C1: with a Tumbling window of size S, the sample of the last add(ts, v)
\* is counted in the window whose start is floor(ts/S)*S, which satisfies
\* start <= ts < start + S, for every integer ts.
C1_TumblingFloorStart ==
    (twa.config.window_type = "Tumbling" /\ calls # <<>>) =>
        LET S == twa.config.window_size_ms
            st == (LastCall.ts \div S) * S
        IN  /\ st <= LastCall.ts /\ LastCall.ts < st + S
            /\ st \in DOMAIN twa.windows
            /\ <<LastCall.ts, F(LastCall.v)>> \in Range(twa.windows[st].values)

\* C2: after every add, whatever the window kind and the order of the
\* timestamps, at most max_windows windows are retained.
C2_AtMostMaxWindows ==
    Cardinality(DOMAIN twa.windows) <= twa.config.max_window_count

\* C3: an add whose timestamp is strictly less than the start of a window
\* that has been evicted leaves the retained windows unchanged.
C3_LateSampleDropped ==
    [][(/\ Len(calls') = Len(calls) + 1
        /\ \E e \in evicted : calls'[Len(calls')].ts < e)
            => twa'.windows = twa.windows]_vars

\* C4: in a Session aggregator with gap G, the last add(ts, v) joins the
\* window of the previous sample when ts - prev <= G and otherwise opens a
\* window whose start is ts; either way the window's end is ts.
C4_SessionGapSplits ==
    (twa.config.window_type = "Session" /\ calls # <<>>) =>
        LET G == twa.config.session_gap_ms[1]
            ts == LastCall.ts
            smp == <<ts, F(LastCall.v)>>
            fresh == Len(calls) = 1 \/ ts - calls[Len(calls) - 1].ts > G
        IN  \E st \in DOMAIN twa.windows :
                LET w == twa.windows[st]
                IN  /\ w.values # <<>>
                    /\ w.values[Len(w.values)] = smp
                    /\ w.end_time = ts
                    /\ fresh => (st = ts /\ Len(w.values) = 1)
                    /\ ~fresh => (/\ Len(w.values) >= 2
                                  /\ w.values[Len(w.values) - 1][1]
                                        = calls[Len(calls) - 1].ts)

\* ============================================================= SpecStream
\* One StreamAggregator fed by process, with flush at any time.

StreamTimestamps == (0 - 1)..MaxTs

WinIdle ==
    /\ twa = <<>>
    /\ calls = <<>>
    /\ evicted = {}
    /\ aborted = FALSE

InitStream ==
    /\ stream \in {StreamAggregator_new(StreamSize, sl) : sl \in {1, StreamSize}}
    /\ stream_calls = <<>>
    /\ WinIdle
    /\ DigestIdle
    /\ MultiIdle
    /\ AccIdle
    /\ KeyIdle
    /\ PipeIdle
    /\ SigIdle
    /\ LockIdle

Process(ts, v) ==
    /\ Len(stream_calls) < MaxStreamOps
    /\ LET r == process(stream, ts, F(v))
       IN  /\ stream' = r.self
           /\ stream_calls' = Append(stream_calls,
                    [op |-> "process", ts |-> ts, v |-> v, ret |-> r.ret])
    /\ UNCHANGED <<winVars, digest, multiVars, accVars, keyVars, pipeVars, sigVars, lockVars>>

Flush ==
    /\ Len(stream_calls) < MaxStreamOps
    /\ LET r == flush(stream)
       IN  /\ stream' = r.self
           /\ stream_calls' = Append(stream_calls,
                    [op |-> "flush", ts |-> 0, v |-> 0, ret |-> Some(r.ret)])
    /\ UNCHANGED <<winVars, digest, multiVars, accVars, keyVars, pipeVars, sigVars, lockVars>>

NextStream ==
    \/ \E ts \in StreamTimestamps, v \in Values : Process(ts, v)
    \/ Flush

SpecStream == InitStream /\ [][NextStream]_vars

IsProcess(c) == c.op = "process"
ProcessCalls == SelectSeq(stream_calls, IsProcess)
NonDecreasing(cs) == \A i \in 1..(Len(cs) - 1) : cs[i].ts <= cs[i + 1].ts
SetMax(S) == CHOOSE x \in S : \A y \in S : y <= x

\* C5: with slide_ms > 0 and non-decreasing timestamps, the last process(ts, v)
\* returned a result exactly when ts - L >= slide_ms, L being the timestamp
\* of the most recent emitting call before it, or of the first call when
\* none emitted; an emitted result is stamped [ts - size_ms, ts].
C5_EmitIffSlideElapsed ==
    LET ps == ProcessCalls
        n == Len(ps)
        E == {i \in 1..(n - 1) : ps[i].ret # None}
        L == IF E = {} THEN ps[1].ts ELSE ps[SetMax(E)].ts
    IN  (n > 0 /\ NonDecreasing(ps) /\ stream.slide_size_ms > 0) =>
            /\ (ps[n].ret # None) <=> (ps[n].ts - L >= stream.slide_size_ms)
            /\ ps[n].ret # None =>
                    /\ ps[n].ret[1].window_start
                            = ps[n].ts - stream.window_size_ms
                    /\ ps[n].ret[1].window_end = ps[n].ts

\* C6: after every process(ts, v), whatever the order of the timestamps,
\* every sample still in the ring has timestamp >= ts - size_ms.
C6_RingInsideWindow ==
    (stream_calls # <<>> /\ IsProcess(stream_calls[Len(stream_calls)])) =>
        \A i \in DOMAIN stream.buffer :
            stream.buffer[i][1] >=
                stream_calls[Len(stream_calls)].ts - stream.window_size_ms

\* ============================================================= SpecDigest
\* One TDigest fed by add and merge; percentile is a query on any state.

DigestValues == {1, 2, 4}
DigestWeights == {1, 2}
Percents == {0, 25, 50, 75, 90, 100}

\* the digests offered to merge: up to two centroids, never compressed
OtherDigests ==
    {TDigest_add(TDigest_new(MaxCentroids), F(v), F(w)) :
        v \in DigestValues, w \in DigestWeights}
    \cup
    {TDigest_add(TDigest_add(TDigest_new(MaxCentroids), F(1), F(1)),
                 F(v), F(1)) : v \in DigestValues}

InitDigest ==
    /\ digest \in {TDigest_new(mc) : mc \in 1..MaxCentroids}
    /\ WinIdle
    /\ StreamIdle
    /\ MultiIdle
    /\ AccIdle
    /\ KeyIdle
    /\ PipeIdle
    /\ SigIdle
    /\ LockIdle

DigestAdd(v, w) ==
    /\ digest.total_weight.n + w <= MaxTotalWeight
    /\ digest' = TDigest_add(digest, F(v), F(w))
    /\ UNCHANGED <<winVars, streamVars, multiVars, accVars, keyVars, pipeVars, sigVars, lockVars>>

DigestMerge(other) ==
    /\ digest.total_weight.n + other.total_weight.n <= MaxTotalWeight
    /\ digest' = TDigest_merge(digest, other.centroids)
    /\ UNCHANGED <<winVars, streamVars, multiVars, accVars, keyVars, pipeVars, sigVars, lockVars>>

NextDigest ==
    \/ \E v \in DigestValues, w \in DigestWeights : DigestAdd(v, w)
    \/ \E other \in OtherDigests : DigestMerge(other)

SpecDigest == InitDigest /\ [][NextDigest]_vars

\* C10: in every digest state, compressed or not, percentile is monotone:
\* percentile(p1) <= percentile(p2) whenever 0 <= p1 <= p2 <= 100.
C10_PercentileMonotone ==
    \A p1, p2 \in Percents :
        p1 <= p2 => FLe(percentile(digest, F(p1)), percentile(digest, F(p2)))

RECURSIVE SumWeights(_)
SumWeights(cs) ==
    IF cs = <<>> THEN F(0) ELSE FAdd(Head(cs)[2], SumWeights(Tail(cs)))

\* the weight-weighted sum of the centroid means
RECURSIVE WeightedSum(_)
WeightedSum(cs) ==
    IF cs = <<>> THEN F(0)
    ELSE FAdd(FMul(Head(cs)[1], Head(cs)[2]), WeightedSum(Tail(cs)))

C20_WeightsAddUp ==
    /\ SumWeights(digest.centroids) = digest.total_weight
    /\ LET c == compress(digest)
       IN  /\ c.total_weight = digest.total_weight
           /\ SumWeights(c.centroids) = SumWeights(digest.centroids)
           /\ WeightedSum(c.centroids) = WeightedSum(digest.centroids)

C20_MergeAddsTotals ==
    \A other \in OtherDigests :
        digest' = TDigest_merge(digest, other.centroids) =>
            digest'.total_weight =
                FAdd(digest.total_weight, other.total_weight)

\* C20: in every digest state reached by add, compress and merge the
\* centroid weights sum to total_weight; compressing changes neither the
\* total weight nor the weight-weighted sum of the means; after
\* merge(other) total_weight is the sum of the two digests' total weights.
C20_WeightConservation ==
    /\ []C20_WeightsAddUp
    /\ [][C20_MergeAddsTotals]_vars

\* a digest that add has compressed: a centroid heavier than any single
\* sample, its mean a weighted average that is no sample value
C20_Witness_Compressed ==
    \E i \in DOMAIN digest.centroids :
        /\ digest.centroids[i][2].n > 2
        /\ digest.centroids[i][1].d > 1

\* C21: after every add and every merge returns, the digest stores at most
\* 2 * max_centroids centroids, for positive weights and max_centroids >= 1:
\* each forced compression brings the length back under the cap.
C21_CentroidsCapped ==
    Len(digest.centroids) <= 2 * digest.max_centroids

\* a digest of MaxCentroids that a forced compression has shortened: one
\* centroid stands for several samples
C21_Witness_CompressedAtCap ==
    /\ digest.max_centroids = MaxCentroids
    /\ \E i \in DOMAIN digest.centroids : digest.centroids[i][1].d > 1
    /\ Len(digest.centroids) > 1

\* ============================================================ SpecUniform
\* tests::test_tdigest: TDigest::new(100) fed 1, 2, ..., 100, weight 1 each.

UniformCount == 100

InitUniform ==
    /\ digest = TDigest_new(UniformCount)
    /\ WinIdle
    /\ StreamIdle
    /\ MultiIdle
    /\ AccIdle
    /\ KeyIdle
    /\ PipeIdle
    /\ SigIdle
    /\ LockIdle

\* the next iteration of `for i in 1..=100 { td.add(i as f64, 1.0) }`
UniformAdd ==
    /\ Len(digest.centroids) < UniformCount
    /\ digest' = TDigest_add(digest, F(Len(digest.centroids) + 1), F(1))
    /\ UNCHANGED <<winVars, streamVars, multiVars, accVars, keyVars, pipeVars, sigVars, lockVars>>

NextUniform == UniformAdd

SpecUniform == InitUniform /\ [][NextUniform]_vars

\* |x - c| <= tol
Within(x, c, tol) == FLe(FSub(x, c), tol) /\ FLe(FSub(c, x), tol)

UniformFed == Len(digest.centroids) = UniformCount

\* C22: with 1..100 each added once, weight 1, to a digest with
\* max_centroids = 100, percentile(50) is within 5 of 50.5 and
\* percentile(90) within 5 of 90.5; percentile of an empty digest is 0.
C22_UniformAccuracy ==
    /\ UniformFed =>
            /\ Within(percentile(digest, F(50)), FDiv(F(101), F(2)), F(5))
            /\ Within(percentile(digest, F(90)), FDiv(F(181), F(2)), F(5))
    /\ digest.centroids = <<>> =>
            \A p \in Percents : percentile(digest, F(p)) = F(0)

C22_Witness_UniformFed ==
    /\ UniformFed
    /\ digest.total_weight = F(UniformCount)

\* ============================================================== SpecMulti
\* One MultiDimensionAggregator and one add_points batch; each point's
\* add_point call is a rayon job, at most NumWorkers of them running at a
\* time, in any order and interleaving.

TagSets ==
    { [device |-> "agv_001"],
      [device |-> "agv_002"],
      [device |-> "agv_001", sensor |-> "temp"] }

MultiSamples == { <<1, 1>>, <<1, 2>>, <<3, 1>> }

DataPoints ==
    { [timestamp |-> sm[1], value |-> F(sm[2]), tags |-> t] :
        sm \in MultiSamples, t \in TagSets }

MultiConfigs ==
    { WindowConfig_tumbling(WinSize),
      [WindowConfig_tumbling(WinSize) EXCEPT !.max_window_count = 1] }

InitMulti ==
    /\ batch \in [1..BatchLen -> DataPoints]
    /\ multi_config \in MultiConfigs
    /\ aggregators = <<>>
    /\ shard_lock = [sh \in 1..NumShards |-> 0]
    /\ entry_lock = <<>>
    /\ pc = [i \in 1..BatchLen |-> "idle"]
    /\ key_of = [i \in 1..BatchLen |-> <<>>]
    /\ vacant = [i \in 1..BatchLen |-> FALSE]
    /\ created = <<>>
    /\ WinIdle
    /\ StreamIdle
    /\ DigestIdle
    /\ AccIdle
    /\ KeyIdle
    /\ PipeIdle
    /\ SigIdle
    /\ LockIdle

Running == {i \in DOMAIN pc : pc[i] \notin {"idle", "done"}}
AllDone == \A i \in DOMAIN pc : pc[i] = "done"

\* a worker takes point i: let key = DimensionKey::from_tags(&point.tags)
Start(i) ==
    /\ pc[i] = "idle"
    /\ Cardinality(Running) < NumWorkers
    /\ \E it \in tags_iter(batch[i].tags) :
            key_of' = [key_of EXCEPT ![i] = from_tags(it)]
    /\ pc' = [pc EXCEPT ![i] = "entry"]
    /\ UNCHANGED <<batch, multi_config, aggregators, shard_lock, entry_lock, vacant, created>>
    /\ UNCHANGED <<winVars, streamVars, digest, accVars, keyVars, pipeVars, sigVars, lockVars>>

\* self.aggregators.entry(key): lock the shard, look the key up
Entry(i) ==
    /\ pc[i] = "entry"
    /\ shard_lock_free(shard_lock, determine_shard(key_of[i]))
    /\ shard_lock' = [shard_lock EXCEPT ![determine_shard(key_of[i])] = i]
    /\ vacant' = [vacant EXCEPT ![i] = key_of[i] \notin DOMAIN aggregators]
    /\ pc' = [pc EXCEPT ![i] = "or_insert"]
    /\ UNCHANGED <<batch, multi_config, aggregators, entry_lock, key_of, created>>
    /\ UNCHANGED <<winVars, streamVars, digest, accVars, keyVars, pipeVars, sigVars, lockVars>>

\* .or_insert_with(|| Arc::new(RwLock::new(TimeWindowAggregator::new(..))))
OrInsert(i) ==
    /\ pc[i] = "or_insert"
    /\ aggregators' = or_insert_with(aggregators, key_of[i], vacant[i],
                                     multi_config)
    /\ entry_lock' = IF vacant[i] THEN MapPut(entry_lock, key_of[i], 0)
                     ELSE entry_lock
    /\ created' = IF vacant[i] THEN Append(created, key_of[i]) ELSE created
    /\ pc' = [pc EXCEPT ![i] = "write"]
    /\ UNCHANGED <<batch, multi_config, shard_lock, key_of, vacant>>
    /\ UNCHANGED <<winVars, streamVars, digest, accVars, keyVars, pipeVars, sigVars, lockVars>>

\* aggregator.write()
Write(i) ==
    /\ pc[i] = "write"
    /\ entry_lock_free(entry_lock, key_of[i])
    /\ entry_lock' = [entry_lock EXCEPT ![key_of[i]] = i]
    /\ pc' = [pc EXCEPT ![i] = "add_value"]
    /\ UNCHANGED <<batch, multi_config, aggregators, shard_lock, key_of, vacant, created>>
    /\ UNCHANGED <<winVars, streamVars, digest, accVars, keyVars, pipeVars, sigVars, lockVars>>

\* .add_value(point.timestamp, point.value); the write guard, a temporary,
\* is dropped at the end of the statement
AddPointValue(i) ==
    /\ pc[i] = "add_value"
    /\ aggregators' = [aggregators EXCEPT ![key_of[i]] =
                            add_value(@, batch[i].timestamp, batch[i].value)]
    /\ entry_lock' = [entry_lock EXCEPT ![key_of[i]] = 0]
    /\ pc' = [pc EXCEPT ![i] = "drop"]
    /\ UNCHANGED <<batch, multi_config, shard_lock, key_of, vacant, created>>
    /\ UNCHANGED <<winVars, streamVars, digest, accVars, keyVars, pipeVars, sigVars, lockVars>>

\* add_point returns: the RefMut `aggregator` is dropped, unlocking the shard
Drop(i) ==
    /\ pc[i] = "drop"
    /\ shard_lock' = [shard_lock EXCEPT ![determine_shard(key_of[i])] = 0]
    /\ pc' = [pc EXCEPT ![i] = "done"]
    /\ UNCHANGED <<batch, multi_config, aggregators, entry_lock, key_of, vacant, created>>
    /\ UNCHANGED <<winVars, streamVars, digest, accVars, keyVars, pipeVars, sigVars, lockVars>>

NextMulti ==
    \/ \E i \in 1..BatchLen : Start(i)
    \/ \E i \in 1..BatchLen : Entry(i)
    \/ \E i \in 1..BatchLen : OrInsert(i)
    \/ \E i \in 1..BatchLen : Write(i)
    \/ \E i \in 1..BatchLen : AddPointValue(i)
    \/ \E i \in 1..BatchLen : Drop(i)

SpecMulti == InitMulti /\ [][NextMulti]_vars

\* what a caller sees of one key: per retained window its count, sum,
\* first and last
KeyResult(agg) ==
    [st \in DOMAIN agg.windows |->
        [count |-> agg.windows[st].accumulator.count,
         sum |-> agg.windows[st].accumulator.sum,
         first |-> agg.windows[st].accumulator.first,
         last |-> agg.windows[st].accumulator.last]]
Results(aggs) == [k \in DOMAIN aggs |-> KeyResult(aggs[k])]

\* C7: when add_points is over, the per-key results equal those of calling
\* add_point on each point sequentially in batch order, whatever the
\* interleaving of the workers was.
C7_BatchEqualsSequential ==
    AllDone =>
        Results(aggregators)
            = Results(add_points_sequential(<<>>, batch, multi_config))

\* the orders in which the members of a finite set can be taken
Orders(S) ==
    {f \in [1..Cardinality(S) -> S] : \A i, j \in DOMAIN f : i # j => f[i] # f[j]}

\* add_value of the batch points order[1], order[2], ... on one aggregator
RECURSIVE add_values_in_order(_, _)
add_values_in_order(agg, order) ==
    IF order = <<>> THEN agg
    ELSE add_values_in_order(
            add_value(agg, batch[Head(order)].timestamp,
                      batch[Head(order)].value),
            Tail(order))

RECURSIVE SumCounts(_, _)
SumCounts(windows, starts) ==
    IF starts = {} THEN 0
    ELSE LET st == CHOOSE x \in starts : TRUE
         IN  windows[st].accumulator.count + SumCounts(windows, starts \ {st})
TotalCount(agg) == SumCounts(agg.windows, DOMAIN agg.windows)

Occurrences(seq, x) == Cardinality({i \in DOMAIN seq : seq[i] = x})

\* no add of the batch can evict: every cutoff lies below every window start
NoEviction ==
    \A i \in DOMAIN batch :
        batch[i].timestamp
            - multi_config.window_size_ms * multi_config.max_window_count < 0

\* the points whose add_point call has computed the key k
PointsOf(k) == {i \in DOMAIN pc : pc[i] # "idle" /\ key_of[i] = k}

\* C8: concurrent add_point calls on one key are applied one at a time:
\* one aggregator is ever created for the key, and when the calls are over
\* the key's aggregator is the one some sequential order of those calls
\* produces, its total count being the number of calls when nothing can be
\* evicted.
C8_SameKeySerialised ==
    /\ \A k \in DOMAIN aggregators : Occurrences(created, k) = 1
    /\ AllDone =>
        \A i \in DOMAIN batch :
            LET k == key_of[i]
            IN  /\ k \in DOMAIN aggregators
                /\ \E order \in Orders(PointsOf(k)) :
                        aggregators[k] = add_values_in_order(
                            TimeWindowAggregator_new(multi_config), order)
                /\ NoEviction =>
                        TotalCount(aggregators[k]) = Cardinality(PointsOf(k))

\* C8 witness: two calls race on one key that did not exist; the first has
\* created the entry and added its sample and still holds the shard, the
\* second waits in entry().
C8_Witness_RaceOnNewKey ==
    \E i, j \in DOMAIN pc :
        /\ i # j
        /\ key_of[i] = key_of[j]
        /\ pc[i] = "drop" /\ vacant[i]
        /\ pc[j] = "entry"
        /\ TotalCount(aggregators[key_of[i]]) = 1

\* the points whose add_point call is past or_insert_with
Inserted == {i \in DOMAIN pc : pc[i] \in {"write", "add_value", "drop", "done"}}
PairsOfTags(tags) == {<<name, tags[name]>> : name \in DOMAIN tags}

\* the keys of the map are the tag sets inserted so far, one key each, and
\* each key counts the points carrying its tag set
C9_OneKeyPerTagSet ==
    LET seen == {batch[i].tags : i \in Inserted}
    IN  /\ Cardinality(DOMAIN aggregators) = Cardinality(seen)
        /\ \A t \in seen :
                \E k \in DOMAIN aggregators : Range(k) = PairsOfTags(t)
        /\ (AllDone /\ NoEviction) =>
                \A k \in DOMAIN aggregators :
                    TotalCount(aggregators[k]) =
                        Cardinality({i \in DOMAIN batch :
                            PairsOfTags(batch[i].tags) = Range(k)})

\* a step keeps every key, and changes the aggregator of at most the one
\* key whose add_value it runs
C9_OtherKeysUntouched ==
    \A k \in DOMAIN aggregators :
        /\ k \in DOMAIN aggregators'
        /\ aggregators'[k] # aggregators[k] =>
                \E i \in DOMAIN pc :
                    /\ key_of[i] = k
                    /\ pc[i] = "add_value" /\ pc'[i] = "drop"
                    /\ \A k2 \in DOMAIN aggregators \ {k} :
                            aggregators'[k2] = aggregators[k2]

\* C9: the map holds exactly one key per distinct tag set seen, each key
\* counting its own samples only, and an add for one key leaves the
\* aggregator of every other key as it was.
C9_KeysIsolated ==
    /\ []C9_OneKeyPerTagSet
    /\ [][C9_OtherKeysUntouched]_vars

\* C9 witness: points tagged {device: agv_001} and {device: agv_002} have
\* been added and the map holds two keys with one sample each.
C9_Witness_TwoDevices ==
    /\ AllDone
    /\ {batch[i].tags : i \in DOMAIN batch}
            = {[device |-> "agv_001"], [device |-> "agv_002"]}
    /\ Cardinality(DOMAIN aggregators) = 2
    /\ \A k \in DOMAIN aggregators : TotalCount(aggregators[k]) = 1

\* ================================================================ SpecAcc
\* One WelfordAccumulator under add, remove of a value that is in it, and
\* merge of another accumulator.

AccValues == {1, 2, 3}

\* the accumulator that WelfordAccumulator::new() and add of xs[1], xs[2],
\* ... produce
RECURSIVE Accumulate(_)
Accumulate(xs) ==
    IF xs = <<>> THEN WelfordAccumulator_new
    ELSE Welford_add(Accumulate(SubSeq(xs, 1, Len(xs) - 1)), F(xs[Len(xs)]))

\* the sample sequences of the accumulators offered to merge
MergeOperands == {<<>>, <<2>>, <<1, 3>>}

\* xs without its first occurrence of v
RECURSIVE RemoveFirst(_, _)
RemoveFirst(xs, v) ==
    IF xs = <<>> THEN <<>>
    ELSE IF xs[1] = v THEN Tail(xs)
    ELSE <<xs[1]>> \o RemoveFirst(Tail(xs), v)

InitAcc ==
    /\ welford = WelfordAccumulator_new
    /\ welford_in = <<>>
    /\ welford_ops = <<>>
    /\ WinIdle
    /\ StreamIdle
    /\ DigestIdle
    /\ MultiIdle
    /\ KeyIdle
    /\ PipeIdle
    /\ SigIdle
    /\ LockIdle

AccAdd(v) ==
    /\ Len(welford_ops) < MaxAccOps
    /\ welford' = Welford_add(welford, F(v))
    /\ welford_in' = Append(welford_in, v)
    /\ welford_ops' = Append(welford_ops, [op |-> "add", v |-> v, xs |-> <<>>])
    /\ UNCHANGED <<winVars, streamVars, digest, multiVars, keyVars, pipeVars, sigVars, lockVars>>

AccRemove(v) ==
    /\ Len(welford_ops) < MaxAccOps
    /\ v \in Range(welford_in)
    /\ welford' = Welford_remove(welford, F(v))
    /\ welford_in' = RemoveFirst(welford_in, v)
    /\ welford_ops' = Append(welford_ops,
                            [op |-> "remove", v |-> v, xs |-> <<>>])
    /\ UNCHANGED <<winVars, streamVars, digest, multiVars, keyVars, pipeVars, sigVars, lockVars>>

AccMerge(xs) ==
    /\ Len(welford_ops) < MaxAccOps
    /\ welford' = Welford_merge(welford, Accumulate(xs))
    /\ welford_in' = welford_in \o xs
    /\ welford_ops' = Append(welford_ops, [op |-> "merge", v |-> 0, xs |-> xs])
    /\ UNCHANGED <<winVars, streamVars, digest, multiVars, keyVars, pipeVars, sigVars, lockVars>>

NextAcc ==
    \/ \E v \in AccValues : AccAdd(v)
    \/ \E v \in AccValues : AccRemove(v)
    \/ \E xs \in MergeOperands : AccMerge(xs)

SpecAcc == InitAcc /\ [][NextAcc]_vars

\* the calls so far are adds of x1, ..., xn (n >= 1) followed by removes
\* of xn, ..., x1
AddedThenRemovedInReverse ==
    LET n == Len(welford_ops) \div 2
    IN  /\ n >= 1
        /\ Len(welford_ops) = 2 * n
        /\ \A i \in 1..n :
                /\ welford_ops[i].op = "add"
                /\ welford_ops[2 * n + 1 - i].op = "remove"
                /\ welford_ops[2 * n + 1 - i].v = welford_ops[i].v

\* C11: after x1, ..., xn are added to a fresh accumulator and then removed
\* in reverse order, the accumulator is back in the neutral state: count 0,
\* mean, m2 and sum 0, first and last absent (min and max are not claimed).
C11_AddRemoveSymmetry ==
    AddedThenRemovedInReverse =>
        /\ welford.count = 0
        /\ welford.mean = F(0)
        /\ welford.m2 = F(0)
        /\ welford.sum = F(0)
        /\ welford.first = None
        /\ welford.last = None

\* all calls so far are adds
AllAdds == \A i \in DOMAIN welford_ops : welford_ops[i].op = "add"

\* the calls so far are adds of a sequence A followed by one merge of the
\* accumulator of a sequence B
MergedAfterAdds ==
    /\ welford_ops # <<>>
    /\ welford_ops[Len(welford_ops)].op = "merge"
    /\ \A i \in 1..(Len(welford_ops) - 1) : welford_ops[i].op = "add"

SplitA == [i \in 1..(Len(welford_ops) - 1) |-> welford_ops[i].v]
SplitB == welford_ops[Len(welford_ops)].xs

FirstOf(xs) == IF xs = <<>> THEN None ELSE Some(F(xs[1]))
LastOf(xs) == IF xs = <<>> THEN None ELSE Some(F(xs[Len(xs)]))

\* C12: for every split of a sample sequence into A followed by B (either
\* may be empty), merge(acc(A), acc(B)) has the count, sum, mean and m2 of
\* the accumulator fed A then B; its first is A's first (B's when A is
\* empty) and its last is B's last (A's when B is empty).
C12_MergeIsSequential ==
    MergedAfterAdds =>
        LET whole == Accumulate(SplitA \o SplitB)
        IN  /\ welford.count = whole.count
            /\ welford.sum = whole.sum
            /\ welford.mean = whole.mean
            /\ welford.m2 = whole.m2
            /\ welford.first = IF SplitA = <<>> THEN FirstOf(SplitB)
                                               ELSE FirstOf(SplitA)
            /\ welford.last = IF SplitB = <<>> THEN LastOf(SplitA)
                                              ELSE LastOf(SplitB)

\* two samples, the second further from 2 than the first, merged with the
\* accumulator of 1, 3
C12_Witness_MergeTwoGroups ==
    /\ MergedAfterAdds
    /\ SplitA = <<2, 3>>
    /\ SplitB = <<1, 3>>

RECURSIVE SeqSum(_)
SeqSum(xs) == IF xs = <<>> THEN 0 ELSE xs[1] + SeqSum(Tail(xs))

\* the sum of the squared deviations of xs from m
RECURSIVE SumSqDev(_, _)
SumSqDev(xs, m) ==
    IF xs = <<>> THEN F(0)
    ELSE FAdd(FMul(FSub(F(xs[1]), m), FSub(F(xs[1]), m)),
              SumSqDev(Tail(xs), m))

\* what C17 says of the snapshot r of an accumulator fed xs
StatsOf(r, xs) ==
    LET n == Len(xs)
        m == FDiv(F(SeqSum(xs)), F(n))
    IN  /\ r.count = n
        /\ r.sum = F(SeqSum(xs))
        /\ n >= 1 =>
                /\ r.mean = m
                /\ \A i \in 1..n : FLe(r.min, F(xs[i])) /\ FLe(F(xs[i]), r.max)
                /\ \E i \in 1..n : r.min = F(xs[i])
                /\ \E i \in 1..n : r.max = F(xs[i])
        /\ r.variance = IF n <= 1 THEN F(0)
                                  ELSE FDiv(SumSqDev(xs, m), F(n - 1))

\* tumbling(1000) fed (100, 1), (200, 2), (300, 3): its current aggregate
TumblingExample ==
    get_current_aggregate(
        add_value(add_value(add_value(
            TimeWindowAggregator_new(WindowConfig_tumbling(1000)),
            100, F(1)), 200, F(2)), 300, F(3)))

\* C17: after x1, ..., xn are added to a fresh accumulator, count = n,
\* sum is the sum, mean is sum / n, min and max are the extrema and
\* variance is the unbiased sample variance (0 for n <= 1); 1, 2, 3, 4, 5
\* gives count 5, mean 3, variance 2.5; a tumbling(1000) aggregator fed
\* (100, 1), (200, 2), (300, 3) reports count 3, mean 2, min 1, max 3,
\* variance 1.
C17_AddStatistics ==
    /\ AllAdds => StatsOf(Welford_get_result(welford), welford_in)
    /\ LET r == Welford_get_result(Accumulate(<<1, 2, 3, 4, 5>>))
       IN  r.count = 5 /\ r.mean = F(3) /\ r.variance = FDiv(F(5), F(2))
    /\ TumblingExample # None
    /\ LET r == TumblingExample[1]
       IN  /\ r.count = 3 /\ r.mean = F(2) /\ r.min = F(1)
           /\ r.max = F(3) /\ r.variance = F(1)

\* 3, 1, 2 added: three samples, the extrema not at the ends
C17_Witness_ThreeAdds ==
    /\ AllAdds
    /\ welford_in = <<2, 1, 3>>

C19_EmptySnapshotZeroExtrema ==
    /\ LET r == Welford_get_result(welford)
       IN  r.count = 0 => (r.min = F(0) /\ r.max = F(0))
    /\ \A sl \in {1, StreamSize} :
            LET flushed == flush(process(StreamAggregator_new(StreamSize, sl),
                                         1, F(1)).self).self
                r == flush(flushed).ret
            IN  r.count = 0 /\ r.min = F(0) /\ r.max = F(0)
    /\ LET r == Welford_get_result(Accumulate(<<>>))
       IN  r.count = 0 /\ r.min = F(0) /\ r.max = F(0)

\* an accumulator emptied by remove
C19_Witness_EmptiedByRemove ==
    /\ welford.count = 0
    /\ welford_ops # <<>>
    /\ welford_ops[Len(welford_ops)].op = "remove"

\* ------------------------------------------------- SpecWin: eviction

\* ts - max_window_count * window_size_ms for the last add_value(ts, v)
EvictionCutoff(agg, ts) ==
    ts - agg.config.max_window_count * agg.config.window_size_ms

C14_NoneBelowCutoff ==
    calls # <<>> =>
        \A s \in DOMAIN twa.windows : s >= EvictionCutoff(twa, LastCall.ts)

\* an add_value step keeps every earlier window at or above its cutoff,
\* with the samples it held: untouched, or extended by the new sample
C14_RetainedIntact ==
    (Len(calls') = Len(calls) + 1) =>
        LET ts == calls'[Len(calls')].ts
            v == calls'[Len(calls')].v
        IN  \A s \in DOMAIN twa.windows :
                s >= EvictionCutoff(twa, ts) =>
                    /\ s \in DOMAIN twa'.windows
                    /\ \/ twa'.windows[s] = twa.windows[s]
                       \/ twa'.windows[s] =
                            [twa.windows[s] EXCEPT
                                !.accumulator = Welford_add(@, F(v)),
                                !.values = Append(@, <<ts, F(v)>>)]

\* C14: when add_value(ts, v) returns, no retained window has
\* start < ts - max_window_count * window_size_ms, and every window that
\* existed before the call with start at or above that cutoff is still
\* retained with its aggregate intact.
C14_EvictionOnInsert ==
    /\ []C14_NoneBelowCutoff
    /\ [][C14_RetainedIntact]_vars

\* an add_value has evicted a window and kept an earlier one beside the
\* window of its own sample
C14_Witness_EvictedAndKept ==
    /\ evicted # {}
    /\ Cardinality(DOMAIN twa.windows) >= 2
    /\ \E s \in evicted : \A k \in DOMAIN twa.windows : s < k

\* ------------------------------------------------- SpecWin: queries

\* what a query must report for the retained window that starts at s
ExpectedResult(s) ==
    [Welford_get_result(twa.windows[s].accumulator) EXCEPT
        !.window_start = s,
        !.window_end = s + twa.config.window_size_ms]

\* rs holds exactly the expected results of the windows in S, ascending
ResultsOf(rs, S) ==
    /\ Len(rs) = Cardinality(S)
    /\ \A i \in DOMAIN rs :
            /\ rs[i].window_start \in S
            /\ rs[i] = ExpectedResult(rs[i].window_start)
    /\ \A i, j \in DOMAIN rs :
            i < j => rs[i].window_start < rs[j].window_start

C15_Current ==
    LET S == DOMAIN twa.windows
    IN  IF S = {} THEN get_current_aggregate(twa) = None
        ELSE get_current_aggregate(twa) =
                Some(ExpectedResult(CHOOSE s \in S : \A k \in S : k <= s))

C15_All == ResultsOf(get_all_aggregates(twa), DOMAIN twa.windows)

C15_Range(a, b) ==
    LET q == get_aggregates_in_range(twa, a, b)
    IN  /\ ~q.panic
        /\ ResultsOf(q.results, {s \in DOMAIN twa.windows : a <= s /\ s < b})

\* C15: current() is the result of the retained window with the highest
\* start (absent when none is retained); all() is one result per retained
\* window in ascending start order; range(a, b) is, for any integers a and
\* b, exactly the retained windows with a <= start < b in ascending order;
\* every result carries window_start = start and
\* window_end = start + window_size_ms.
C15_Queries ==
    /\ C15_Current
    /\ C15_All
    /\ \A a, b \in Timestamps : C15_Range(a, b)

\* ============================================================= SpecConfig
\* A TimeWindowAggregator built from a Tumbling or Sliding configuration
\* whose window_size_ms or slide_size_ms is zero or negative.

NonPositiveConfigs ==
    {[c EXCEPT !.max_window_count = m] :
        c \in {WindowConfig_tumbling(0),
               WindowConfig_tumbling(0 - WinSize),
               WindowConfig_sliding(0, SlideSize),
               WindowConfig_sliding(0 - WinSize, SlideSize),
               WindowConfig_sliding(WinSize, 0),
               WindowConfig_sliding(WinSize, 0 - SlideSize)},
        m \in {1, MaxWindows}}

InitConfig ==
    /\ twa \in {TimeWindowAggregator_new(c) : c \in NonPositiveConfigs}
    /\ calls = <<>>
    /\ evicted = {}
    /\ aborted = FALSE
    /\ StreamIdle
    /\ DigestIdle
    /\ MultiIdle
    /\ AccIdle
    /\ KeyIdle
    /\ PipeIdle
    /\ SigIdle
    /\ LockIdle

SpecConfig == InitConfig /\ [][NextWin]_vars

\* what the window invariants forbid: Tumbling or Sliding with
\* window_size_ms <= 0, Sliding with slide_size_ms <= 0
InvalidWindowConfig(config) ==
    \/ /\ config.window_type \in {"Tumbling", "Sliding"}
       /\ config.window_size_ms <= 0
    \/ /\ config.window_type = "Sliding"
       /\ config.slide_size_ms # None
       /\ config.slide_size_ms[1] <= 0

\* C13: a Tumbling or Sliding aggregator with a non-positive size (or a
\* Sliding one with a non-positive slide) is rejected as a configuration
\* error: neither construction nor add_value aborts, and no sample is ever
\* admitted into a window under such a configuration.
C13_InvalidConfigRejected ==
    InvalidWindowConfig(twa.config) =>
        /\ ~aborted
        /\ twa.windows = <<>>
        /\ evicted = {}

\* ================================================================ SpecKey
\* Two DimensionKeys, each built by with_dimension calls or by from_tags.

DimensionValues == {"agv_001", "temp"}

InitKey ==
    /\ key_a = DimensionKey_new
    /\ key_b = DimensionKey_new
    /\ WinIdle
    /\ StreamIdle
    /\ DigestIdle
    /\ MultiIdle
    /\ AccIdle
    /\ PipeIdle
    /\ SigIdle
    /\ LockIdle

WithDimensionA(name, value) ==
    /\ Len(key_a) < MaxDims
    /\ key_a' = with_dimension(key_a, name, value)
    /\ UNCHANGED <<key_b, winVars, streamVars, digest, multiVars, accVars, pipeVars, sigVars, lockVars>>

WithDimensionB(name, value) ==
    /\ Len(key_b) < MaxDims
    /\ key_b' = with_dimension(key_b, name, value)
    /\ UNCHANGED <<key_a, winVars, streamVars, digest, multiVars, accVars, pipeVars, sigVars, lockVars>>

FromTagsA(tags) ==
    /\ \E it \in tags_iter(tags) : key_a' = from_tags(it)
    /\ UNCHANGED <<key_b, winVars, streamVars, digest, multiVars, accVars, pipeVars, sigVars, lockVars>>

FromTagsB(tags) ==
    /\ \E it \in tags_iter(tags) : key_b' = from_tags(it)
    /\ UNCHANGED <<key_a, winVars, streamVars, digest, multiVars, accVars, pipeVars, sigVars, lockVars>>

NextKey ==
    \/ \E name \in Range(TagNames), value \in DimensionValues :
            WithDimensionA(name, value)
    \/ \E name \in Range(TagNames), value \in DimensionValues :
            WithDimensionB(name, value)
    \/ \E tags \in TagSets : FromTagsA(tags)
    \/ \E tags \in TagSets : FromTagsB(tags)

SpecKey == InitKey /\ [][NextKey]_vars

SortedByName(key) ==
    \A i, j \in DOMAIN key :
        i < j => NameRank(key[i][1]) <= NameRank(key[j][1])

\* C16: two keys are equal if and only if they were built from the same
\* set of (name, value) pairs, in whatever order the pairs were supplied
\* (from_tags, or with_dimension calls in any order); the stored pairs are
\* always sorted by name.
C16_KeyCanonical ==
    /\ (key_a = key_b) <=> (Range(key_a) = Range(key_b))
    /\ SortedByName(key_a)
    /\ SortedByName(key_b)

\* =============================================================== SpecPipe
\* One AggregationPipeline: built stage by stage, then executed on a
\* sequence of points.

AggregationPipeline_new == <<>>

\* the fn(&DataPoint) -> bool values handed to filter
Predicates == {"value_above_1", "device_is_agv_001"}
apply_predicate(predicate, point) ==
    CASE predicate = "value_above_1" -> FLt(F(1), point.value)
      [] predicate = "device_is_agv_001" ->
            /\ "device" \in DOMAIN point.tags
            /\ point.tags["device"] = "agv_001"

\* the fn(&DataPoint) -> DataPoint values handed to map
Transforms == {"double_value"}
apply_transform(transform, point) ==
    CASE transform = "double_value" ->
            [point EXCEPT !.value = FMul(F(2), point.value)]

\* the fn(&DataPoint) -> DimensionKey values handed to group_by
KeyFns == {"by_tags"}

AggregationTypes == {"Mean", "Count"}

\* `for point in &current_points { acc.add(point.value) }`
RECURSIVE add_all(_, _)
add_all(acc, points) ==
    IF points = <<>> THEN acc
    ELSE add_all(Welford_add(acc, Head(points).value), Tail(points))

\* `for point in &current_points { agg.add_value(point.timestamp, ..) }`
RECURSIVE add_value_all(_, _)
add_value_all(agg, points) ==
    IF points = <<>> THEN agg
    ELSE add_value_all(add_value(agg, Head(points).timestamp,
                                 Head(points).value),
                       Tail(points))

\* one iteration of execute's loop in which Aggregate overwrites results
execute_op_overwriting(st, op) ==
    CASE op.kind = "Filter" ->
            [st EXCEPT !.current_points =
                SelectSeq(@, LAMBDA pt : apply_predicate(op.predicate, pt))]
      [] op.kind = "Map" ->
            [st EXCEPT !.current_points =
                [i \in DOMAIN @ |-> apply_transform(op.transform, @[i])]]
      [] op.kind = "GroupBy" -> st
      [] op.kind = "Aggregate" ->
            [st EXCEPT !.results =
                <<Welford_get_result(
                    add_all(WelfordAccumulator_new, st.current_points))>>]
      [] op.kind = "Window" ->
            [st EXCEPT !.results =
                get_all_aggregates(
                    add_value_all(TimeWindowAggregator_new(op.config),
                                  st.current_points))]

\* one iteration of `for op in &self.operations`, on the locals
\* current_points and results
execute_op(st, op) ==
    CASE op.kind = "Filter" ->
            [st EXCEPT !.current_points =
                SelectSeq(@, LAMBDA pt : apply_predicate(op.predicate, pt))]
      [] op.kind = "Map" ->
            [st EXCEPT !.current_points =
                [i \in DOMAIN @ |-> apply_transform(op.transform, @[i])]]
      [] op.kind = "GroupBy" -> st
      [] op.kind = "Aggregate" ->
            [st EXCEPT !.results =
                Append(@, Welford_get_result(
                    add_all(WelfordAccumulator_new, st.current_points)))]
      [] op.kind = "Window" ->
            [st EXCEPT !.results =
                get_all_aggregates(
                    add_value_all(TimeWindowAggregator_new(op.config),
                                  st.current_points))]

RECURSIVE execute_loop(_, _)
execute_loop(st, ops) ==
    IF ops = <<>> THEN st
    ELSE execute_loop(execute_op(st, Head(ops)), Tail(ops))

execute(ops, points) ==
    execute_loop([current_points |-> points, results |-> <<>>], ops).results

PipePointA == [timestamp |-> 1, value |-> F(1), tags |-> [device |-> "agv_001"]]
PipePointB == [timestamp |-> 2, value |-> F(2), tags |-> [device |-> "agv_002"]]
PipePointC == [timestamp |-> 3, value |-> F(3), tags |-> [device |-> "agv_001"]]

\* the point sequences handed to execute
PipeInputs ==
    {<<>>, <<PipePointA>>, <<PipePointA, PipePointB>>,
     <<PipePointB, PipePointA>>, <<PipePointA, PipePointB, PipePointC>>}

InitPipe ==
    /\ operations = AggregationPipeline_new
    /\ execution = <<>>
    /\ WinIdle
    /\ StreamIdle
    /\ DigestIdle
    /\ MultiIdle
    /\ AccIdle
    /\ KeyIdle
    /\ SigIdle
    /\ LockIdle

\* filter(predicate) pushes AggregateOp::Filter
PipeFilter(predicate) ==
    /\ Len(operations) < MaxStages
    /\ execution = <<>>
    /\ operations' = Append(operations, [kind |-> "Filter", predicate |-> predicate])
    /\ UNCHANGED <<execution, winVars, streamVars, digest, multiVars,
                   accVars, keyVars, sigVars, lockVars>>

\* map(transform) pushes AggregateOp::Map
PipeMap(transform) ==
    /\ Len(operations) < MaxStages
    /\ execution = <<>>
    /\ operations' = Append(operations, [kind |-> "Map", transform |-> transform])
    /\ UNCHANGED <<execution, winVars, streamVars, digest, multiVars,
                   accVars, keyVars, sigVars, lockVars>>

\* group_by(key_fn) pushes AggregateOp::GroupBy
PipeGroupBy(key_fn) ==
    /\ Len(operations) < MaxStages
    /\ execution = <<>>
    /\ operations' = Append(operations, [kind |-> "GroupBy", key_fn |-> key_fn])
    /\ UNCHANGED <<execution, winVars, streamVars, digest, multiVars,
                   accVars, keyVars, sigVars, lockVars>>

\* aggregate(aggregation) pushes AggregateOp::Aggregate
PipeAggregate(aggregation) ==
    /\ Len(operations) < MaxStages
    /\ execution = <<>>
    /\ operations' = Append(operations, [kind |-> "Aggregate", aggregation |-> aggregation])
    /\ UNCHANGED <<execution, winVars, streamVars, digest, multiVars,
                   accVars, keyVars, sigVars, lockVars>>

\* window(config) pushes AggregateOp::Window
PipeWindow(config) ==
    /\ Len(operations) < MaxStages
    /\ execution = <<>>
    /\ operations' = Append(operations, [kind |-> "Window", config |-> config])
    /\ UNCHANGED <<execution, winVars, streamVars, digest, multiVars,
                   accVars, keyVars, sigVars, lockVars>>

PipeExecute(points) ==
    /\ execution' = <<[points |-> points,
                       results |-> execute(operations, points)]>>
    /\ UNCHANGED <<operations, winVars, streamVars, digest, multiVars,
                   accVars, keyVars, sigVars, lockVars>>

NextPipe ==
    \/ \E predicate \in Predicates : PipeFilter(predicate)
    \/ \E transform \in Transforms : PipeMap(transform)
    \/ \E key_fn \in KeyFns : PipeGroupBy(key_fn)
    \/ \E aggregation \in AggregationTypes : PipeAggregate(aggregation)
    \/ PipeWindow(WindowConfig_tumbling(WinSize))
    \/ \E points \in PipeInputs : PipeExecute(points)

SpecPipe == InitPipe /\ [][NextPipe]_vars

\* the key a key_fn gives a point
KeyOf(key_fn, point) ==
    CASE key_fn = "by_tags" ->
            from_tags(CHOOSE it \in tags_iter(point.tags) : TRUE)

\* the keys of the points in use, in sorted order
PipeKeyOrder == <<KeyOf("by_tags", PipePointA), KeyOf("by_tags", PipePointB)>>

\* running `rest` on the partition of each key from the n-th on, in key
\* order, and concatenating what comes out
RECURSIVE PerPartition(_, _, _, _)
PerPartition(rest, key_fn, points, n) ==
    IF n > Len(PipeKeyOrder) THEN <<>>
    ELSE LET part == SelectSeq(points,
                        LAMBDA pt : KeyOf(key_fn, pt) = PipeKeyOrder[n])
         IN  (IF part = <<>> THEN <<>> ELSE execute(rest, part))
                \o PerPartition(rest, key_fn, points, n + 1)

\* the pipeline is Filter and Map stages, one GroupBy at index g, then
\* stages that are not GroupBy
GroupByAt(g) ==
    /\ g \in DOMAIN operations
    /\ operations[g].kind = "GroupBy"
    /\ \A i \in 1..(g - 1) : operations[i].kind \in {"Filter", "Map"}
    /\ \A i \in (g + 1)..Len(operations) : operations[i].kind # "GroupBy"

\* C23: a GroupBy(key_fn) stage partitions the stages after it: execute
\* returns what the remaining stages give on each partition of the points
\* sharing key_fn(point), concatenated in key order; points with k keys
\* followed by Aggregate give k results (stated for a non-empty sequence
\* reaching the GroupBy).
C23_GroupByPartitions ==
    \A g \in DOMAIN operations :
        (execution # <<>> /\ GroupByAt(g)) =>
            LET before == execute_loop(
                              [current_points |-> execution[1].points,
                               results |-> <<>>],
                              SubSeq(operations, 1, g - 1))
                rest == SubSeq(operations, g + 1, Len(operations))
            IN  before.current_points # <<>> =>
                    execution[1].results =
                        PerPartition(rest, operations[g].key_fn,
                                     before.current_points, 1)

\* the locals of execute after its first i operations
StateAfter(i) ==
    execute_loop([current_points |-> execution[1].points, results |-> <<>>],
                 SubSeq(operations, 1, i))

ValuesOf(points) == [i \in DOMAIN points |-> points[i].value.n]

\* what C24 says of operation i
StageEffect(i) ==
    LET b == StateAfter(i - 1)
        a == StateAfter(i)
        op == operations[i]
    IN  CASE op.kind = "Aggregate" ->
                /\ Len(a.results) = Len(b.results) + 1
                /\ SubSeq(a.results, 1, Len(b.results)) = b.results
                /\ StatsOf(a.results[Len(a.results)],
                           ValuesOf(b.current_points))
                /\ a.current_points = b.current_points
          [] op.kind = "Window" ->
                /\ a.results =
                        get_all_aggregates(
                            add_value_all(TimeWindowAggregator_new(op.config),
                                          b.current_points))
                /\ a.current_points = b.current_points
          [] op.kind = "Filter" ->
                /\ a.results = b.results
                /\ a.current_points =
                        SelectSeq(b.current_points,
                                  LAMBDA pt : apply_predicate(op.predicate, pt))
          [] op.kind = "Map" ->
                /\ a.results = b.results
                /\ Len(a.current_points) = Len(b.current_points)
                /\ \A k \in DOMAIN a.current_points :
                        a.current_points[k] =
                            apply_transform(op.transform, b.current_points[k])
          [] op.kind = "GroupBy" -> TRUE

\* C24: an Aggregate stage appends one result summarising the current
\* sequence and keeps the results of earlier stages; a Window stage
\* replaces the result list with the aggregator's get_all_aggregates;
\* Filter and Map change only the sequence in flight; a pipeline without
\* Aggregate or Window returns an empty list.
C24_StageEffects ==
    execution # <<>> =>
        /\ \A i \in DOMAIN operations : StageEffect(i)
        /\ execution[1].results = StateAfter(Len(operations)).results
        /\ (\A i \in DOMAIN operations :
                operations[i].kind \notin {"Aggregate", "Window"})
                    => execution[1].results = <<>>

\* executed: a Window stage, then a Filter, then an Aggregate whose result
\* joins the windows' results
C24_Witness_WindowThenAggregate ==
    /\ execution # <<>>
    /\ Len(operations) = 3
    /\ operations[1].kind = "Window"
    /\ operations[2].kind = "Filter"
    /\ operations[3].kind = "Aggregate"
    /\ Len(execution[1].results) = 3

\* ======================================================== SignalProcessor
\* signal-processor/src/lib.rs.  A call's outcome is a record: tag "Ok" or
\* "Err" for the two cases of a Result, "Return" for a plain value, "Panic"
\* when the call unwinds.  Square roots are kept symbolically,
\* [sqrt |-> x]; 2 * PI is taken as 44 / 7.  NaN samples are not modelled.

Ok(v) == [tag |-> "Ok", v |-> v]
Err(e) == [tag |-> "Err", v |-> e]
Return(v) == [tag |-> "Return", v |-> v]
Panic == [tag |-> "Panic", v |-> <<>>]

NAN == [n |-> 0, d |-> 0]
FAbs(a) == IF a.n < 0 THEN [n |-> 0 - a.n, d |-> a.d] ELSE a

InsufficientLength(required, actual) ==
    [kind |-> "InsufficientLength", required |-> required, actual |-> actual]
InvalidFilterParams == [kind |-> "InvalidFilterParams"]
InvalidSampleRate(rate) == [kind |-> "InvalidSampleRate", rate |-> rate]

SignalProcessor_new(sample_rate) ==
    IF FLe(sample_rate, F(0)) THEN Err(InvalidSampleRate(sample_rate))
    ELSE Ok([sample_rate |-> sample_rate, fft_size |-> 1024])

\* iter().sum::<f64>()
RECURSIVE FSum(_)
FSum(xs) == IF xs = <<>> THEN F(0) ELSE FAdd(Head(xs), FSum(Tail(xs)))

\* sort_by(|a, b| a.partial_cmp(b).unwrap()): a stable sort
RECURSIVE insert_f64(_, _)
insert_f64(sorted, x) ==
    IF sorted = <<>> THEN <<x>>
    ELSE IF FLe(Head(sorted), x)
         THEN <<Head(sorted)>> \o insert_f64(Tail(sorted), x)
         ELSE <<x>> \o sorted

RECURSIVE sort_f64(_)
sort_f64(xs) ==
    IF xs = <<>> THEN <<>>
    ELSE insert_f64(sort_f64(SubSeq(xs, 1, Len(xs) - 1)), xs[Len(xs)])

\* the median as calculate_statistics and detect_anomaly_mad take it from
\* a sorted, non-empty vector (indices are 1-based here)
median_of_sorted(sorted) ==
    LET half == Len(sorted) \div 2
    IN  IF Len(sorted) % 2 = 0
        THEN FDiv(FAdd(sorted[half], sorted[half + 1]), F(2))
        ELSE sorted[half + 1]

\* iter().cloned().fold(init, f64::min) and fold(init, f64::max)
RECURSIVE fold_min(_, _)
fold_min(init, xs) ==
    IF xs = <<>> THEN init ELSE fold_min(FMin(init, Head(xs)), Tail(xs))

RECURSIVE fold_max(_, _)
fold_max(init, xs) ==
    IF xs = <<>> THEN init ELSE fold_max(FMax(init, Head(xs)), Tail(xs))

\* calculate_statistics without skewness, kurtosis, rms and crest_factor
calculate_statistics(signal) ==
    IF signal = <<>> THEN Err(InsufficientLength(1, 0))
    ELSE LET len == Len(signal)
             mean == FDiv(FSum(signal), F(len))
             variance ==
                FDiv(FSum([i \in DOMAIN signal |->
                            FMul(FSub(signal[i], mean),
                                 FSub(signal[i], mean))]),
                     F(len))
             sorted == sort_f64(signal)
             min == fold_min(INFINITY, signal)
             max == fold_max(NEG_INFINITY, signal)
             q1 == sorted[(len \div 4) + 1]
             q3 == sorted[((3 * len) \div 4) + 1]
         IN  Ok([count |-> len,
                 mean |-> mean,
                 variance |-> variance,
                 std_dev |-> [sqrt |-> variance],
                 min |-> min,
                 max |-> max,
                 range |-> FSub(max, min),
                 median |-> median_of_sorted(sorted),
                 q1 |-> q1,
                 q3 |-> q3,
                 iqr |-> FSub(q3, q1),
                 peak_to_peak |-> FSub(max, min)])

\* the StatisticsResult the detectors substitute when calculate_statistics
\* fails; iqr is 0.0 in detect_anomaly_zscore and 1.0 in the other two
fallback_statistics(iqr) ==
    [count |-> 0, mean |-> F(0), variance |-> F(1),
     std_dev |-> [sqrt |-> F(1)], min |-> F(0), max |-> F(0),
     range |-> F(0), median |-> F(0), q1 |-> F(0), q3 |-> F(0),
     iqr |-> iqr, peak_to_peak |-> F(0)]

unwrap_or_else(result, default) ==
    IF result.tag = "Ok" THEN result.v ELSE default

\* a / sqrt(x), for a >= 0 and x > 0, kept as the pair
OverSqrt(a, root) == [abs |-> a, over |-> root]

\* a / sqrt(x) > t
OverSqrtGt(q, t) ==
    IF t.n < 0 THEN TRUE
    ELSE FLt(FMul(FMul(t, t), q.over.sqrt), FMul(q.abs, q.abs))

detect_anomaly_zscore(value, history, threshold) ==
    LET stats == unwrap_or_else(calculate_statistics(history),
                                fallback_statistics(F(0)))
        z_score == IF FLt(F(0), stats.std_dev.sqrt)
                   THEN OverSqrt(FAbs(FSub(value, stats.mean)), stats.std_dev)
                   ELSE OverSqrt(F(0), [sqrt |-> F(1)])
    IN  Return([is_anomaly |-> OverSqrtGt(z_score, threshold),
                score |-> z_score,
                threshold |-> threshold,
                method |-> "Z-Score"])

detect_anomaly_iqr(value, history, k) ==
    LET stats == unwrap_or_else(calculate_statistics(history),
                                fallback_statistics(F(1)))
        lower_bound == FSub(stats.q1, FMul(k, stats.iqr))
        upper_bound == FAdd(stats.q3, FMul(k, stats.iqr))
        is_anomaly == FLt(value, lower_bound) \/ FLt(upper_bound, value)
        score == IF FLt(F(0), stats.iqr)
                 THEN IF FLt(value, stats.median)
                      THEN FDiv(FSub(stats.q1, value), stats.iqr)
                      ELSE FDiv(FSub(value, stats.q3), stats.iqr)
                 ELSE F(0)
    IN  Return([is_anomaly |-> is_anomaly,
                score |-> FMax(score, F(0)),
                threshold |-> k,
                method |-> "IQR"])

\* the sorted absolute deviations of detect_anomaly_mad
abs_deviations(history, median) ==
    sort_f64([i \in DOMAIN history |-> FAbs(FSub(history[i], median))])

\* with an empty history abs_deviations.len() / 2 - 1 underflows: the
\* subtraction panics where overflow is checked, and where it wraps the
\* index usize::MAX is out of bounds, which panics as well
detect_anomaly_mad(value, history, threshold) ==
    LET stats == unwrap_or_else(calculate_statistics(history),
                                fallback_statistics(F(1)))
    IN  IF history = <<>> THEN Panic
        ELSE LET mad == median_of_sorted(abs_deviations(history, stats.median))
                 mad_corrected == FMul(mad, FDiv(F(7413), F(5000)))
                 score == IF FLt(F(0), mad_corrected)
                          THEN FDiv(FAbs(FSub(value, stats.median)),
                                    mad_corrected)
                          ELSE F(0)
             IN  Return([is_anomaly |-> FLt(threshold, score),
                         score |-> score,
                         threshold |-> threshold,
                         method |-> "MAD"])

\* a moving-average loop that never drops the sample leaving the window
RECURSIVE moving_average_loop_growing(_, _, _, _)
moving_average_loop_growing(signal, window_size, i, sum) ==
    IF i > Len(signal) THEN <<>>
    ELSE LET s == IF i - 1 >= window_size THEN FAdd(sum, signal[i]) ELSE sum
             y == IF window_size = 0 THEN NAN ELSE FDiv(s, F(window_size))
         IN  <<y>> \o moving_average_loop_growing(signal, window_size,
                                                  i + 1, s)

\* the `for i in 0..signal.len()` loop of moving_average, from the i-th
\* sample (1-based) on
RECURSIVE moving_average_loop(_, _, _, _)
moving_average_loop(signal, window_size, i, sum) ==
    IF i > Len(signal) THEN <<>>
    ELSE LET s == IF i - 1 >= window_size
                  THEN FAdd(FSub(sum, signal[i - window_size]), signal[i])
                  ELSE sum
             y == IF window_size = 0 THEN NAN ELSE FDiv(s, F(window_size))
         IN  <<y>> \o moving_average_loop(signal, window_size, i + 1, s)

moving_average(signal, window_size) ==
    IF Len(signal) < window_size
    THEN Err(InsufficientLength(window_size, Len(signal)))
    ELSE Ok(moving_average_loop(signal, window_size, 1,
                                FSum(SubSeq(signal, 1, window_size))))

RECURSIVE ema_loop(_, _, _)
ema_loop(rest, alpha, ema) ==
    IF rest = <<>> THEN <<>>
    ELSE LET next == FAdd(FMul(alpha, Head(rest)),
                          FMul(FSub(F(1), alpha), ema))
         IN  <<next>> \o ema_loop(Tail(rest), alpha, next)

\* `let mut ema = signal[0]` indexes an empty slice when the block is empty
exponential_moving_average(signal, alpha) ==
    IF FLe(alpha, F(0)) \/ FLt(F(1), alpha) THEN Err(InvalidFilterParams)
    ELSE IF signal = <<>> THEN Panic
    ELSE Ok(ema_loop(signal, alpha, signal[1]))

median_filter(signal, window_size) ==
    IF Len(signal) < window_size
    THEN Err(InsufficientLength(window_size, Len(signal)))
    ELSE LET half_window == window_size \div 2
         IN  Ok([i \in DOMAIN signal |->
                    LET start == IF i - 1 >= half_window
                                 THEN i - 1 - half_window ELSE 0
                        end == IF i + half_window <= Len(signal)
                               THEN i + half_window ELSE Len(signal)
                        window == sort_f64(SubSeq(signal, start + 1, end))
                    IN  window[(Len(window) \div 2) + 1]])

\* one pass of `for i in 1..signal.len()` over result
RECURSIVE lowpass_pass(_, _, _, _)
lowpass_pass(result, signal, alpha, i) ==
    IF i > Len(signal) THEN result
    ELSE lowpass_pass(
            [result EXCEPT ![i] = FAdd(FMul(alpha, signal[i]),
                                       FMul(FSub(F(1), alpha), result[i - 1]))],
            signal, alpha, i + 1)

RECURSIVE lowpass_passes(_, _, _, _)
lowpass_passes(result, signal, alpha, order) ==
    IF order = 0 THEN result
    ELSE lowpass_passes(lowpass_pass(result, signal, alpha, 2),
                        signal, alpha, order - 1)

\* `result[0] = signal[0]` indexes an empty vector when the block is empty
butterworth_lowpass(proc, signal, cutoff, order) ==
    LET normalized_cutoff == FDiv(cutoff, FDiv(proc.sample_rate, F(2)))
    IN  IF FLe(normalized_cutoff, F(0)) \/ FLe(F(1), normalized_cutoff)
        THEN Err(InvalidFilterParams)
        ELSE IF signal = <<>> THEN Panic
        ELSE LET rc == FDiv(F(1), FMul(FDiv(F(44), F(7)), cutoff))
                 dt == FDiv(F(1), proc.sample_rate)
                 alpha == FDiv(dt, FAdd(rc, dt))
                 zeros == [i \in DOMAIN signal |-> F(0)]
             IN  Ok(lowpass_passes([zeros EXCEPT ![1] = signal[1]],
                                   signal, alpha, order))

butterworth_highpass(proc, signal, cutoff, order) ==
    LET lowpass == butterworth_lowpass(proc, signal, cutoff, order)
    IN  IF lowpass.tag # "Ok" THEN lowpass
        ELSE Ok([i \in DOMAIN signal |-> FSub(signal[i], lowpass.v[i])])

butterworth_bandpass(proc, signal, low, high, order) ==
    LET highpassed == butterworth_highpass(proc, signal, low, order)
    IN  IF highpassed.tag # "Ok" THEN highpassed
        ELSE butterworth_lowpass(proc, highpassed.v, high, order)

butterworth_bandstop(proc, signal, low, high, order) ==
    LET lowpassed == butterworth_lowpass(proc, signal, low, order)
    IN  IF lowpassed.tag # "Ok" THEN lowpassed
        ELSE LET highpassed == butterworth_highpass(proc, signal, high, order)
             IN  IF highpassed.tag # "Ok" THEN highpassed
                 ELSE Ok([i \in DOMAIN signal |->
                            FAdd(lowpassed.v[i], highpassed.v[i])])

apply_filter(proc, signal, filter_type) ==
    CASE filter_type.kind = "MovingAverage" ->
            moving_average(signal, filter_type.window_size)
      [] filter_type.kind = "ExponentialMovingAverage" ->
            exponential_moving_average(signal, filter_type.alpha)
      [] filter_type.kind = "Median" ->
            median_filter(signal, filter_type.window_size)
      [] filter_type.kind = "LowPass" ->
            butterworth_lowpass(proc, signal, filter_type.cutoff, 4)
      [] filter_type.kind = "HighPass" ->
            butterworth_highpass(proc, signal, filter_type.cutoff, 4)
      [] filter_type.kind = "BandPass" ->
            butterworth_bandpass(proc, signal, filter_type.low,
                                 filter_type.high, 4)
      [] filter_type.kind = "BandStop" ->
            butterworth_bandstop(proc, signal, filter_type.low,
                                 filter_type.high, 4)

\* par_iter().map(apply_filter).collect(): one entry per block in input
\* order; a panic in any job is resumed in the caller
process_batch(proc, signals, filter_type) ==
    LET entries == [i \in DOMAIN signals |->
                        apply_filter(proc, signals[i], filter_type)]
    IN  IF \E i \in DOMAIN entries : entries[i].tag = "Panic" THEN Panic
        ELSE Return(entries)

\* ============================================================= SpecSignal
\* One SignalProcessor (sample rate 44 Hz).  Every method takes &self and
\* the struct has no interior mutability, so no call influences a later
\* one: a behaviour is the construction followed by one call, whose
\* arguments and outcome sig_last records.

SampleValues == {1, 2, 4}

\* the sample blocks: every sequence of up to MaxBlockLen sample values
Blocks ==
    UNION {[1..len -> {F(x) : x \in SampleValues}] : len \in 0..MaxBlockLen}

Candidates == {F(0), F(1), F(3), F(9)}
Thresholds == {F(1), F(2)}
Cutoffs == {F(0), F(7), F(22)}

FilterTypes ==
    {[kind |-> "MovingAverage", window_size |-> w] : w \in 0..MaxBlockLen}
    \cup {[kind |-> "Median", window_size |-> w] : w \in 0..MaxBlockLen}
    \cup {[kind |-> "ExponentialMovingAverage", alpha |-> a] :
            a \in {F(0), FDiv(F(1), F(2)), F(1), F(2)}}
    \cup {[kind |-> k, cutoff |-> c] :
            k \in {"LowPass", "HighPass"}, c \in Cutoffs}
    \cup {[kind |-> k, low |-> lo, high |-> hi] :
            k \in {"BandPass", "BandStop"}, lo \in Cutoffs, hi \in Cutoffs}

\* the blocks of a batch
BatchBlocks == {<<>>, <<F(1)>>, <<F(1), F(2), F(4)>>}
Batches == UNION {[1..len -> BatchBlocks] : len \in 0..MaxBatch}

InitSignal ==
    /\ processor = SignalProcessor_new(F(44)).v
    /\ sig_last = <<>>
    /\ WinIdle
    /\ StreamIdle
    /\ DigestIdle
    /\ MultiIdle
    /\ AccIdle
    /\ KeyIdle
    /\ PipeIdle
    /\ LockIdle

CalculateStatistics(signal) ==
    /\ sig_last = <<>>
    /\ sig_last' = [op |-> "calculate_statistics", signal |-> signal,
                    outcome |-> calculate_statistics(signal)]
    /\ UNCHANGED <<processor, winVars, streamVars, digest, multiVars,
                   accVars, keyVars, pipeVars, lockVars>>

DetectAnomalyZscore(value, history, threshold) ==
    /\ sig_last = <<>>
    /\ sig_last' = [op |-> "detect_anomaly_zscore", value |-> value,
                    history |-> history, threshold |-> threshold,
                    outcome |-> detect_anomaly_zscore(value, history,
                                                      threshold)]
    /\ UNCHANGED <<processor, winVars, streamVars, digest, multiVars,
                   accVars, keyVars, pipeVars, lockVars>>

DetectAnomalyIqr(value, history, k) ==
    /\ sig_last = <<>>
    /\ sig_last' = [op |-> "detect_anomaly_iqr", value |-> value,
                    history |-> history, threshold |-> k,
                    outcome |-> detect_anomaly_iqr(value, history, k)]
    /\ UNCHANGED <<processor, winVars, streamVars, digest, multiVars,
                   accVars, keyVars, pipeVars, lockVars>>

DetectAnomalyMad(value, history, threshold) ==
    /\ sig_last = <<>>
    /\ sig_last' = [op |-> "detect_anomaly_mad", value |-> value,
                    history |-> history, threshold |-> threshold,
                    outcome |-> detect_anomaly_mad(value, history, threshold)]
    /\ UNCHANGED <<processor, winVars, streamVars, digest, multiVars,
                   accVars, keyVars, pipeVars, lockVars>>

ApplyFilter(signal, filter_type) ==
    /\ sig_last = <<>>
    /\ sig_last' = [op |-> "apply_filter", signal |-> signal,
                    filter_type |-> filter_type,
                    outcome |-> apply_filter(processor, signal, filter_type)]
    /\ UNCHANGED <<processor, winVars, streamVars, digest, multiVars,
                   accVars, keyVars, pipeVars, lockVars>>

ProcessBatch(signals, filter_type) ==
    /\ sig_last = <<>>
    /\ sig_last' = [op |-> "process_batch", signals |-> signals,
                    filter_type |-> filter_type,
                    outcome |-> process_batch(processor, signals, filter_type)]
    /\ UNCHANGED <<processor, winVars, streamVars, digest, multiVars,
                   accVars, keyVars, pipeVars, lockVars>>

NextSignal ==
    \/ \E signal \in Blocks : CalculateStatistics(signal)
    \/ \E value \in Candidates, history \in Blocks, threshold \in Thresholds :
            DetectAnomalyZscore(value, history, threshold)
    \/ \E value \in Candidates, history \in Blocks, k \in Thresholds :
            DetectAnomalyIqr(value, history, k)
    \/ \E value \in Candidates, history \in Blocks, threshold \in Thresholds :
            DetectAnomalyMad(value, history, threshold)
    \/ \E signal \in Blocks, filter_type \in FilterTypes :
            ApplyFilter(signal, filter_type)
    \/ \E signals \in Batches, filter_type \in FilterTypes :
            ProcessBatch(signals, filter_type)

SpecSignal == InitSignal /\ [][NextSignal]_vars

LastOp(op) == sig_last # <<>> /\ sig_last.op = op

\* ---------------------------------------------------- SpecSignal: claims

\* the median as the lower middle element of a sorted, non-empty vector
median_lower(sorted) == sorted[((Len(sorted) - 1) \div 2) + 1]

\* C27: calculate_statistics reports as median the middle element of the
\* sorted block, the lower middle when the length is even, q1 and q3 as the
\* sorted elements at floor(n/4) and floor(3n/4), iqr = q3 - q1, and fails
\* with InsufficientLength { required: 1, actual: 0 } on an empty block.
C27_MedianAndQuartiles ==
    LastOp("calculate_statistics") =>
        LET signal == sig_last.signal
            sorted == sort_f64(signal)
            len == Len(signal)
            out == sig_last.outcome
        IN  IF signal = <<>>
            THEN out = Err(InsufficientLength(1, 0))
            ELSE /\ out.tag = "Ok"
                 /\ out.v.median = median_lower(sorted)
                 /\ out.v.q1 = sorted[(len \div 4) + 1]
                 /\ out.v.q3 = sorted[((3 * len) \div 4) + 1]
                 /\ out.v.iqr = FSub(out.v.q3, out.v.q1)

Detectors ==
    {"detect_anomaly_zscore", "detect_anomaly_iqr", "detect_anomaly_mad"}

\* the spread a detector divides by is zero for this non-empty history
ZeroSpread(op, history) ==
    LET stats == calculate_statistics(history).v
    IN  CASE op = "detect_anomaly_zscore" -> stats.variance = F(0)
          [] op = "detect_anomaly_iqr" -> stats.iqr = F(0)
          [] op = "detect_anomaly_mad" ->
                median_of_sorted(abs_deviations(history, stats.median)) = F(0)

ScoreIsZero(op, score) ==
    IF op = "detect_anomaly_zscore" THEN score.abs = F(0) ELSE score = F(0)

Benign(op, out) ==
    /\ out.tag = "Return"
    /\ ~out.v.is_anomaly
    /\ ScoreIsZero(op, out.v.score)

\* C25: with an empty history, or a history whose spread (std_dev, iqr,
\* mad) is zero, each detector returns normally with score 0 and
\* is_anomaly = false, whatever the value and the threshold.
C25_DegenerateIsBenign ==
    (sig_last # <<>> /\ sig_last.op \in Detectors) =>
        ((sig_last.history = <<>>
          \/ ZeroSpread(sig_last.op, sig_last.history))
            => Benign(sig_last.op, sig_last.outcome))

\* C26: with a history whose iqr is positive, detect_anomaly_iqr flags the
\* value exactly when it lies below q1 - k * iqr or above q3 + k * iqr, the
\* score is the distance by which the value passes the nearer of these two
\* bounds divided by iqr, clamped at 0, and so the score is positive
\* exactly when the value is flagged.
C26_IqrScore ==
    (LastOp("detect_anomaly_iqr") /\ sig_last.history # <<>>) =>
        LET stats == calculate_statistics(sig_last.history).v
            value == sig_last.value
            k == sig_last.threshold
            lower == FSub(stats.q1, FMul(k, stats.iqr))
            upper == FAdd(stats.q3, FMul(k, stats.iqr))
            past == IF FLt(value, lower) THEN FSub(lower, value)
                    ELSE IF FLt(upper, value) THEN FSub(value, upper)
                    ELSE F(0)
            out == sig_last.outcome
        IN  FLt(F(0), stats.iqr) =>
                /\ out.tag = "Return"
                /\ out.v.is_anomaly
                        <=> (FLt(value, lower) \/ FLt(upper, value))
                /\ out.v.score = FDiv(past, stats.iqr)
                /\ FLt(F(0), out.v.score) <=> out.v.is_anomaly

\* the cutoff divided by the Nyquist frequency lies outside (0, 1)
CutoffOutside(cutoff) ==
    LET normalized == FDiv(cutoff, FDiv(processor.sample_rate, F(2)))
    IN  FLe(normalized, F(0)) \/ FLe(F(1), normalized)

BadParams(filter_type) ==
    CASE filter_type.kind = "ExponentialMovingAverage" ->
            FLe(filter_type.alpha, F(0)) \/ FLt(F(1), filter_type.alpha)
      [] filter_type.kind \in {"LowPass", "HighPass"} ->
            CutoffOutside(filter_type.cutoff)
      [] filter_type.kind \in {"BandPass", "BandStop"} ->
            CutoffOutside(filter_type.low) \/ CutoffOutside(filter_type.high)
      [] OTHER -> FALSE

TooShort(signal, filter_type) ==
    /\ filter_type.kind \in {"MovingAverage", "Median"}
    /\ Len(signal) < filter_type.window_size

\* what the filter contract allows as the outcome of one apply_filter call
FilterContract(signal, filter_type, out) ==
    /\ out.tag \in {"Ok", "Err"}
    /\ out.tag = "Ok" => Len(out.v) = Len(signal)
    /\ TooShort(signal, filter_type) =>
            out = Err(InsufficientLength(filter_type.window_size, Len(signal)))
    /\ BadParams(filter_type) => out = Err(InvalidFilterParams)

\* C28: apply_filter is total: for every block, the empty one included, and
\* every filter it returns a block of the input's length or a typed error
\* and never aborts; the error is InsufficientLength when the block is
\* shorter than the window of MovingAverage or Median and
\* InvalidFilterParams when alpha is outside (0, 1] or the normalised cutoff
\* outside (0, 1).
C28_ApplyFilterTotal ==
    LastOp("apply_filter") =>
        FilterContract(sig_last.signal, sig_last.filter_type, sig_last.outcome)

\* C29: process_batch returns exactly one entry per input block, in input
\* order, each the outcome of filtering that block; a block that fails
\* yields a failure entry and does not keep the others from being returned.
C29_BatchPerBlock ==
    LastOp("process_batch") =>
        LET signals == sig_last.signals
            out == sig_last.outcome
        IN  /\ out.tag = "Return"
            /\ Len(out.v) = Len(signals)
            /\ \A i \in DOMAIN signals :
                    /\ out.v[i].tag \in {"Ok", "Err"}
                    /\ out.v[i] = apply_filter(processor, signals[i],
                                               sig_last.filter_type)

\* ------------------------------------------------------ SpecStream: flush

\* the index of the most recent flush in stream_calls, 0 when there is none
LastFlush ==
    LET flushes == {i \in DOMAIN stream_calls : stream_calls[i].op = "flush"}
    IN  IF flushes = {} THEN 0 ELSE SetMax(flushes)

\* the calls after the most recent flush: process calls only
SinceFlush == SubSeq(stream_calls, LastFlush + 1, Len(stream_calls))

SamplesOf(cs) == [i \in DOMAIN cs |-> <<cs[i].ts, F(cs[i].v)>>]

\* a step that is a flush call: its snapshot counts and sums the ring as it
\* was, and it leaves the ring empty and the accumulator as new
C30_FlushStep ==
    (stream_calls' # stream_calls
     /\ stream_calls'[Len(stream_calls')].op = "flush") =>
        LET ret == stream_calls'[Len(stream_calls')].ret[1]
        IN  /\ ret.count = buffer_size(stream)
            /\ ret.sum = FSum([i \in DOMAIN stream.buffer |->
                                stream.buffer[i][2]])
            /\ buffer_size(stream') = 0
            /\ stream'.accumulator = WelfordAccumulator_new

\* a flush that directly follows a flush returns count 0
C30_RepeatedFlush ==
    \A i \in 1..(Len(stream_calls) - 1) :
        (stream_calls[i].op = "flush" /\ stream_calls[i + 1].op = "flush")
            => stream_calls[i + 1].ret[1].count = 0

\* after a flush the ring holds samples received since that flush only, the
\* accumulator counts just these, and every result emitted since draws its
\* count and extrema from the samples received since the flush
C30_OnlyLaterSamples ==
    LastFlush > 0 =>
        LET since == SinceFlush
            samples == SamplesOf(since)
        IN  /\ \E k \in 0..Len(samples) :
                    stream.buffer = SubSeq(samples, k + 1, Len(samples))
            /\ stream.accumulator.count = Len(stream.buffer)
            /\ \A j \in DOMAIN since :
                    since[j].ret # None =>
                        LET seen == {F(since[i].v) : i \in 1..j}
                        IN  /\ since[j].ret[1].count \in 1..j
                            /\ since[j].ret[1].min \in seen
                            /\ since[j].ret[1].max \in seen

\* C30: flush() returns the snapshot of exactly the samples buffered at
\* the time of the call (its count is buffer_size() just before) and leaves
\* the ring empty and the accumulator reinitialised: buffer_size() is 0
\* afterwards, an immediately repeated flush returns count 0, and a later
\* process call aggregates only samples received after the flush.
C30_FlushSnapshot ==
    /\ []C30_RepeatedFlush
    /\ []C30_OnlyLaterSamples
    /\ [][C30_FlushStep]_vars

\* a sample, a flush, then a process call that emitted a result over a
\* different value
C30_Witness_EmitAfterFlush ==
    /\ Len(stream_calls) = 3
    /\ stream_calls[1].op = "process"
    /\ stream_calls[2].op = "flush"
    /\ stream_calls[2].ret[1].count = 1
    /\ stream_calls[3].op = "process"
    /\ stream_calls[3].ret # None
    /\ stream_calls[3].v # stream_calls[1].v

\* ------------------------------------------- SpecSignal: moving average

MeanOf(xs) == FDiv(FSum(xs), F(Len(xs)))

\* the outputs the moving average of window w has for a block of at least
\* w samples (positions are 1-based here)
MovingAverageOf(signal, w) ==
    [i \in DOMAIN signal |->
        IF i <= w THEN MeanOf(SubSeq(signal, 1, w))
        ELSE MeanOf(SubSeq(signal, i - w + 1, i))]

OneToTen == [i \in 1..10 |-> F(i)]

\* C31: the moving average of window W >= 1 over a block of length L >= W
\* has L outputs, the first W equal to the mean of the first W inputs and
\* output i, for i >= W, equal to the mean of inputs i-W+1..i; W = 3 on
\* [1..10] gives 2 for the first three outputs and 3 at index 3; a block
\* shorter than W fails with InsufficientLength { required: W, actual: L }.
C31_MovingAverage ==
    /\ (LastOp("apply_filter")
         /\ sig_last.filter_type.kind = "MovingAverage"
         /\ sig_last.filter_type.window_size >= 1) =>
            LET signal == sig_last.signal
                w == sig_last.filter_type.window_size
            IN  IF Len(signal) < w
                THEN sig_last.outcome = Err(InsufficientLength(w, Len(signal)))
                ELSE sig_last.outcome = Ok(MovingAverageOf(signal, w))
    /\ LET out == moving_average(OneToTen, 3)
       IN  /\ out.tag = "Ok"
           /\ Len(out.v) = 10
           /\ \A i \in 1..3 : out.v[i] = F(2)
           /\ out.v[4] = F(3)

\* a moving average whose window has slid: three distinct samples, W = 2
C31_Witness_WindowSlid ==
    /\ LastOp("apply_filter")
    /\ sig_last.filter_type = [kind |-> "MovingAverage", window_size |-> 2]
    /\ sig_last.signal = <<F(1), F(2), F(4)>>
    /\ sig_last.outcome = Ok(<<FDiv(F(3), F(2)), FDiv(F(3), F(2)), F(3)>>)

\* --------------------------------------------------- SpecStream: eviction

LastStreamCall == stream_calls[Len(stream_calls)]

\* a step that is a process call: what left the ring is a run of its oldest
\* samples, each older than ts - window_size_ms, and the sample just pushed
\* is still there
C32_ProcessStep ==
    (stream_calls' # stream_calls
     /\ stream_calls'[Len(stream_calls')].op = "process") =>
        LET call == stream_calls'[Len(stream_calls')]
            pushed == Append(stream.buffer, <<call.ts, F(call.v)>>)
            cutoff == call.ts - stream.window_size_ms
        IN  /\ \E k \in 0..(Len(pushed) - 1) :
                    /\ stream'.buffer = SubSeq(pushed, k + 1, Len(pushed))
                    /\ \A i \in 1..k : pushed[i][1] < cutoff
            /\ buffer_size(stream') >= 1

\* process applied to each sample in turn
RECURSIVE process_all(_, _)
process_all(s, samples) ==
    IF samples = <<>> THEN s
    ELSE process_all(process(s, Head(samples)[1], Head(samples)[2]).self,
                     Tail(samples))

\* (ts = t * 100, value = t) for t = 0..9
TenSamples == [i \in 1..10 |-> <<(i - 1) * 100, F(i - 1)>>]

\* with size_ms = 1000 and slide_ms = 500 the ring holds all ten samples
C32_Example ==
    process_all(StreamAggregator_new(1000, 500), TenSamples).buffer
        = TenSamples

\* C32: process(ts, v) removes only samples with timestamp
\* < ts - size_ms, so the sample just processed is always retained and
\* buffer_size() >= 1 after every process call; with size_ms = 1000,
\* slide_ms = 500 and samples at ts = 0, 100, .., 900 nothing is evicted.
C32_NoEvictionInsideWindow ==
    /\ [][C32_ProcessStep]_vars
    /\ []C32_Example

\* a process call has evicted the oldest sample and kept the one before
\* its own
C32_Witness_EvictedOldest ==
    /\ Len(stream_calls) = 3
    /\ \A i \in 1..3 : stream_calls[i].op = "process"
    /\ stream_calls[1].ts < stream_calls[3].ts - stream.window_size_ms
    /\ stream.buffer = <<<<stream_calls[2].ts, F(stream_calls[2].v)>>,
                         <<stream_calls[3].ts, F(stream_calls[3].v)>>>>

\* the accumulator counts and sums exactly the samples in the ring
C35_AccumulatorIsRing ==
    /\ stream.accumulator.count = buffer_size(stream)
    /\ stream.accumulator.sum
            = FSum([i \in DOMAIN stream.buffer |-> stream.buffer[i][2]])

\* a step that hands out a result: its count is the number of samples in
\* the ring at the moment it is taken (after the eviction of a process
\* call, before the clear of a flush)
C35_ResultStep ==
    (stream_calls' # stream_calls
     /\ stream_calls'[Len(stream_calls')].ret # None) =>
        LET call == stream_calls'[Len(stream_calls')]
        IN  call.ret[1].count = IF call.op = "process"
                                THEN buffer_size(stream')
                                ELSE buffer_size(stream)

\* C35: in every state reachable by process and flush calls the
\* accumulator's count is the number of samples in the ring and its sum the
\* sum of the ring's values; hence the count of every emitted or flushed
\* result is the number of buffered samples at that moment.
C35_AccumulatorMatchesRing ==
    /\ []C35_AccumulatorIsRing
    /\ [][C35_ResultStep]_vars

\* a process call that evicted a sample and emitted a result over the two
\* samples left
C35_Witness_EmitAfterEviction ==
    /\ stream_calls # <<>>
    /\ LastStreamCall.op = "process"
    /\ LastStreamCall.ret # None
    /\ LastStreamCall.ret[1].count = 2
    /\ buffer_size(stream) = 2
    /\ Len(ProcessCalls) = 3

\* ------------------------------------------------- SpecAcc: retraction

AddsSoFar == SelectSeq(welford_ops, LAMBDA c : c.op = "add")
RemovesSoFar == SelectSeq(welford_ops, LAMBDA c : c.op = "remove")

\* the calls so far are adds of x1..xn followed by removes of x1..xk, in
\* that order, with 1 <= k < n
AddedThenRemovedInArrivalOrder ==
    LET n == Len(AddsSoFar)
        k == Len(RemovesSoFar)
    IN  /\ welford_ops = AddsSoFar \o RemovesSoFar
        /\ 1 <= k
        /\ k < n
        /\ \A i \in 1..k : RemovesSoFar[i].v = AddsSoFar[i].v

\* C36: after x1..xn are added and then x1..xk (k < n) removed in arrival
\* order, the count, sum, mean and m2 are those of a fresh accumulator fed
\* xk+1..xn only, in exact arithmetic.
C36_RetractionExact ==
    AddedThenRemovedInArrivalOrder =>
        LET n == Len(AddsSoFar)
            k == Len(RemovesSoFar)
            fresh == Accumulate([i \in 1..(n - k) |-> AddsSoFar[k + i].v])
        IN  /\ welford.count = fresh.count
            /\ welford.sum = fresh.sum
            /\ welford.mean = fresh.mean
            /\ welford.m2 = fresh.m2

\* three distinct samples added, the first one removed
C36_Witness_OldestRetracted ==
    /\ AddedThenRemovedInArrivalOrder
    /\ Len(AddsSoFar) = 3
    /\ Cardinality({AddsSoFar[i].v : i \in 1..3}) = 3
    /\ welford.count = 2
    /\ welford.m2 # F(0)

\* ------------------------------------------------ SpecWin: frame of add

\* the sample of the last add_value is in a retained window
LastSampleRetained ==
    \E st \in DOMAIN twa.windows :
        /\ <<LastCall.ts, F(LastCall.v)>> \in Range(twa.windows[st].values)
        /\ twa.windows[st].accumulator.count >= 1
        /\ \E i \in DOMAIN get_all_aggregates(twa) :
                /\ get_all_aggregates(twa)[i].window_start
                        = twa.windows[st].start_time
                /\ get_all_aggregates(twa)[i].count
                        = twa.windows[st].accumulator.count

SlideWithinSize ==
    (twa.config.window_type = "Sliding" /\ twa.config.slide_size_ms # None)
        => twa.config.slide_size_ms[1] <= twa.config.window_size_ms

\* C33: for an aggregator of any kind (Tumbling, Sliding with
\* slide <= size, Session) with max_window_count >= 1 and a non-negative
\* ts, right after add_value(ts, v) the window that received the sample is
\* still retained: get_current_aggregate is present and get_all_aggregates
\* holds a window whose count includes the sample.
C33_SampleNotLost ==
    (/\ calls # <<>>
     /\ ~aborted
     /\ LastCall.ts >= 0
     /\ twa.config.max_window_count >= 1
     /\ SlideWithinSize) =>
        /\ LastSampleRetained
        /\ get_current_aggregate(twa) # None

\* the fields of a window's accumulator that add_value may not change in
\* another window
Untouched(before, after) ==
    /\ after.accumulator.count = before.accumulator.count
    /\ after.accumulator.sum = before.accumulator.sum
    /\ after.accumulator.min = before.accumulator.min
    /\ after.accumulator.max = before.accumulator.max
    /\ after.accumulator.first = before.accumulator.first
    /\ after.accumulator.last = before.accumulator.last

\* a step that is an add_value(ts, v): the target window holds one sample
\* more, v more in its sum and v as its last; every other retained window
\* is as it was
C34_AddStep ==
    (Len(calls') = Len(calls) + 1 /\ ~aborted') =>
        LET ts == calls'[Len(calls')].ts
            v == F(calls'[Len(calls')].v)
            target == get_window_start(twa, ts)
            old == IF target \in DOMAIN twa.windows
                   THEN twa.windows[target].accumulator
                   ELSE WelfordAccumulator_new
        IN  /\ target \in DOMAIN twa'.windows
            /\ twa'.windows[target].accumulator.count = old.count + 1
            /\ twa'.windows[target].accumulator.sum = FAdd(old.sum, v)
            /\ twa'.windows[target].accumulator.last = Some(v)
            /\ \A st \in DOMAIN twa'.windows \ {target} :
                    /\ st \in DOMAIN twa.windows
                    /\ Untouched(twa.windows[st], twa'.windows[st])

\* two consecutive add_value calls with the same ts leave a window that
\* counts both
C34_SameTimestampTwice ==
    (Len(calls) >= 2 /\ ~aborted
     /\ calls[Len(calls) - 1].ts = LastCall.ts) =>
        \E st \in DOMAIN twa.windows :
            /\ twa.windows[st].accumulator.count >= 2
            /\ Len(SelectSeq(twa.windows[st].values,
                             LAMBDA s : s[1] = LastCall.ts)) >= 2

\* C34: add_value(ts, v) touches exactly one window: the target window's
\* count grows by 1, its sum by v and its last becomes v, while the count,
\* sum, min, max, first and last of every other window that stays retained
\* are unchanged; two samples with the same ts are both counted in the
\* same window.
C34_AddTouchesOneWindow ==
    /\ [][C34_AddStep]_vars
    /\ []C34_SameTimestampTwice

\* =============================================================== SpecLock
\* Threads calling add_point, add_points, get_aggregate,
\* get_all_aggregates, get_dimensions and reset on one
\* MultiDimensionAggregator, one call each.  Only the locks are modelled:
\* the reader/writer lock of each DashMap shard and the RwLock of each
\* entry.  The samples play no part in who waits for whom.
\*
\* add_points hands its points to rayon; the thread of the call works them
\* off one after the other here, and the points of a batch running in
\* parallel are the add_point calls of several threads.

FreeLock == [writer |-> 0, readers |-> {}]

\* RwLock::write / the shard lock taken by entry() and clear(): blocks
\* while anybody holds the lock
can_write(lock) == lock.writer = 0 /\ lock.readers = {}

\* RwLock::read / the shard lock taken by get() and iter(): blocks while a
\* writer holds the lock
can_read(lock) == lock.writer = 0

lock_write(lock, t) == [lock EXCEPT !.writer = t]
lock_read(lock, t) == [lock EXCEPT !.readers = @ \cup {t}]

\* a write guard that is dropped without unlocking
unlock_write_leaking(lock) == lock

unlock_write(lock) == [lock EXCEPT !.writer = 0]
unlock_read(lock, t) == [lock EXCEPT !.readers = @ \ {t}]

\* the keys present in a shard
keys_in_shard(entries, shard) ==
    {k \in DOMAIN entries : determine_shard(k) = shard}

\* the keys the calls name: a one-tag key and a two-tag key
CallKeys ==
    {from_tags(it) :
        it \in UNION {tags_iter(t) :
                        t \in {[device |-> "agv_001"],
                               [device |-> "agv_001", sensor |-> "temp"]}}}

CallOf(op, keys, start) ==
    [op |-> op, keys |-> keys, pc |-> start, shard |-> 0, visit |-> {}]

\* the calls a thread may make, each at its first step
Calls ==
    {CallOf("add_point", <<k>>, "entry") : k \in CallKeys}
    \cup {CallOf("add_points", ks, "entry") :
            ks \in {p \in CallKeys \X CallKeys : p[1] # p[2]}}
    \cup {CallOf("get_aggregate", <<k>>, "get") : k \in CallKeys}
    \cup {CallOf("get_all_aggregates", <<>>, "iter"),
          CallOf("get_dimensions", <<>>, "iter"),
          CallOf("reset", <<>>, "clear")}

InitLock ==
    /\ callers \in [1..MaxCallers -> Calls]
    /\ shard_rw = [sh \in 1..NumShards |-> FreeLock]
    /\ entry_rw = <<>>
    /\ WinIdle
    /\ StreamIdle
    /\ DigestIdle
    /\ MultiIdle
    /\ AccIdle
    /\ KeyIdle
    /\ PipeIdle
    /\ SigIdle

\* add_point: self.aggregators.entry(key) write-locks the key's shard
AddEntry(t) ==
    /\ callers[t].pc = "entry"
    /\ LET sh == determine_shard(Head(callers[t].keys))
       IN  /\ can_write(shard_rw[sh])
           /\ shard_rw' = [shard_rw EXCEPT ![sh] = lock_write(@, t)]
           /\ callers' = [callers EXCEPT ![t].pc = "or_insert",
                                         ![t].shard = sh]
    /\ UNCHANGED entry_rw
    /\ UNCHANGED <<winVars, streamVars, digest, multiVars, accVars, keyVars,
                   pipeVars, sigVars>>

\* .or_insert_with(|| Arc::new(RwLock::new(..)))
AddOrInsert(t) ==
    /\ callers[t].pc = "or_insert"
    /\ entry_rw' = IF Head(callers[t].keys) \in DOMAIN entry_rw THEN entry_rw
                   ELSE MapPut(entry_rw, Head(callers[t].keys), FreeLock)
    /\ callers' = [callers EXCEPT ![t].pc = "write"]
    /\ UNCHANGED shard_rw
    /\ UNCHANGED <<winVars, streamVars, digest, multiVars, accVars, keyVars,
                   pipeVars, sigVars>>

\* aggregator.write()
AddWrite(t) ==
    /\ callers[t].pc = "write"
    /\ can_write(entry_rw[Head(callers[t].keys)])
    /\ entry_rw' = [entry_rw EXCEPT ![Head(callers[t].keys)] =
                        lock_write(@, t)]
    /\ callers' = [callers EXCEPT ![t].pc = "add_value"]
    /\ UNCHANGED shard_rw
    /\ UNCHANGED <<winVars, streamVars, digest, multiVars, accVars, keyVars,
                   pipeVars, sigVars>>

\* .add_value(..); the write guard is dropped at the end of the statement
AddValueUnlock(t) ==
    /\ callers[t].pc = "add_value"
    /\ entry_rw' = [entry_rw EXCEPT ![Head(callers[t].keys)] =
                        unlock_write(@)]
    /\ callers' = [callers EXCEPT ![t].pc = "drop"]
    /\ UNCHANGED shard_rw
    /\ UNCHANGED <<winVars, streamVars, digest, multiVars, accVars, keyVars,
                   pipeVars, sigVars>>

\* add_point returns: the RefMut is dropped, unlocking the shard; the
\* thread goes on to its next point or is done
AddReturn(t) ==
    /\ callers[t].pc = "drop"
    /\ shard_rw' = [shard_rw EXCEPT ![callers[t].shard] = unlock_write(@)]
    /\ callers' = [callers EXCEPT
                        ![t].keys = Tail(@),
                        ![t].shard = 0,
                        ![t].pc = IF Tail(callers[t].keys) = <<>>
                                  THEN "done" ELSE "entry"]
    /\ UNCHANGED entry_rw
    /\ UNCHANGED <<winVars, streamVars, digest, multiVars, accVars, keyVars,
                   pipeVars, sigVars>>

\* get_aggregate: self.aggregators.get(key) read-locks the key's shard; a
\* missing key unlocks it at once and the call returns None
GetShard(t) ==
    /\ callers[t].pc = "get"
    /\ LET k == Head(callers[t].keys)
           sh == determine_shard(k)
       IN  /\ can_read(shard_rw[sh])
           /\ IF k \in DOMAIN entry_rw
              THEN /\ shard_rw' = [shard_rw EXCEPT ![sh] = lock_read(@, t)]
                   /\ callers' = [callers EXCEPT ![t].pc = "and_then",
                                                 ![t].shard = sh]
              ELSE /\ callers' = [callers EXCEPT ![t].pc = "done"]
                   /\ UNCHANGED shard_rw
    /\ UNCHANGED entry_rw
    /\ UNCHANGED <<winVars, streamVars, digest, multiVars, accVars, keyVars,
                   pipeVars, sigVars>>

\* .and_then(|agg| agg.read()...
GetRead(t) ==
    /\ callers[t].pc = "and_then"
    /\ can_read(entry_rw[Head(callers[t].keys)])
    /\ entry_rw' = [entry_rw EXCEPT ![Head(callers[t].keys)] =
                        lock_read(@, t)]
    /\ callers' = [callers EXCEPT ![t].pc = "current"]
    /\ UNCHANGED shard_rw
    /\ UNCHANGED <<winVars, streamVars, digest, multiVars, accVars, keyVars,
                   pipeVars, sigVars>>

\* ...get_current_aggregate()): the read guard is dropped
GetCurrent(t) ==
    /\ callers[t].pc = "current"
    /\ entry_rw' = [entry_rw EXCEPT ![Head(callers[t].keys)] =
                        unlock_read(@, t)]
    /\ callers' = [callers EXCEPT ![t].pc = "drop_ref"]
    /\ UNCHANGED shard_rw
    /\ UNCHANGED <<winVars, streamVars, digest, multiVars, accVars, keyVars,
                   pipeVars, sigVars>>

\* get_aggregate returns: the Ref is dropped, unlocking the shard
GetReturn(t) ==
    /\ callers[t].pc = "drop_ref"
    /\ shard_rw' = [shard_rw EXCEPT ![callers[t].shard] = unlock_read(@, t)]
    /\ callers' = [callers EXCEPT ![t].pc = "done", ![t].shard = 0]
    /\ UNCHANGED entry_rw
    /\ UNCHANGED <<winVars, streamVars, digest, multiVars, accVars, keyVars,
                   pipeVars, sigVars>>

\* get_all_aggregates, get_dimensions: self.aggregators.iter() moves to the
\* next shard, read-locking it before the guard of the shard it leaves is
\* dropped
IterNextShard(t) ==
    /\ callers[t].pc = "iter"
    /\ callers[t].shard < NumShards
    /\ LET next == callers[t].shard + 1
           locked == [shard_rw EXCEPT ![next] = lock_read(@, t)]
           inside == keys_in_shard(entry_rw, next)
       IN  /\ can_read(shard_rw[next])
           /\ shard_rw' = IF callers[t].shard = 0 THEN locked
                          ELSE [locked EXCEPT ![callers[t].shard] =
                                    unlock_read(@, t)]
           /\ callers' = [callers EXCEPT
                    ![t].shard = next,
                    ![t].visit = inside,
                    ![t].pc = IF callers[t].op = "get_all_aggregates"
                                 /\ inside # {}
                              THEN "value" ELSE "iter"]
    /\ UNCHANGED entry_rw
    /\ UNCHANGED <<winVars, streamVars, digest, multiVars, accVars, keyVars,
                   pipeVars, sigVars>>

\* entry.value().read() on one of the entries of the shard not yet visited
IterValueRead(t) ==
    /\ callers[t].pc = "value"
    /\ \E k \in callers[t].visit :
            /\ can_read(entry_rw[k])
            /\ entry_rw' = [entry_rw EXCEPT ![k] = lock_read(@, t)]
            /\ callers' = [callers EXCEPT ![t].pc = "all", ![t].keys = <<k>>]
    /\ UNCHANGED shard_rw
    /\ UNCHANGED <<winVars, streamVars, digest, multiVars, accVars, keyVars,
                   pipeVars, sigVars>>

\* .get_all_aggregates() on the entry: the read guard is dropped
IterValueUnlock(t) ==
    /\ callers[t].pc = "all"
    /\ entry_rw' = [entry_rw EXCEPT ![Head(callers[t].keys)] =
                        unlock_read(@, t)]
    /\ callers' = [callers EXCEPT
            ![t].visit = @ \ {Head(callers[t].keys)},
            ![t].keys = <<>>,
            ![t].pc = IF callers[t].visit = {Head(callers[t].keys)}
                      THEN "iter" ELSE "value"]
    /\ UNCHANGED shard_rw
    /\ UNCHANGED <<winVars, streamVars, digest, multiVars, accVars, keyVars,
                   pipeVars, sigVars>>

\* the iterator is exhausted and dropped, unlocking the last shard
IterReturn(t) ==
    /\ callers[t].pc = "iter"
    /\ callers[t].shard = NumShards
    /\ shard_rw' = [shard_rw EXCEPT ![NumShards] = unlock_read(@, t)]
    /\ callers' = [callers EXCEPT ![t].pc = "done", ![t].shard = 0,
                                  ![t].visit = {}]
    /\ UNCHANGED entry_rw
    /\ UNCHANGED <<winVars, streamVars, digest, multiVars, accVars, keyVars,
                   pipeVars, sigVars>>

\* reset: self.aggregators.clear() write-locks the next shard
ClearLock(t) ==
    /\ callers[t].pc = "clear"
    /\ can_write(shard_rw[callers[t].shard + 1])
    /\ shard_rw' = [shard_rw EXCEPT ![callers[t].shard + 1] =
                        lock_write(@, t)]
    /\ callers' = [callers EXCEPT ![t].pc = "retain", ![t].shard = @ + 1]
    /\ UNCHANGED entry_rw
    /\ UNCHANGED <<winVars, streamVars, digest, multiVars, accVars, keyVars,
                   pipeVars, sigVars>>

\* the shard is emptied and unlocked; clear goes on to the next shard or
\* returns
ClearShard(t) ==
    /\ callers[t].pc = "retain"
    /\ entry_rw' = [k \in DOMAIN entry_rw
                            \ keys_in_shard(entry_rw, callers[t].shard) |->
                        entry_rw[k]]
    /\ shard_rw' = [shard_rw EXCEPT ![callers[t].shard] = unlock_write(@)]
    /\ callers' = [callers EXCEPT
            ![t].pc = IF callers[t].shard = NumShards THEN "done" ELSE "clear",
            ![t].shard = IF callers[t].shard = NumShards THEN 0 ELSE @]
    /\ UNCHANGED <<winVars, streamVars, digest, multiVars, accVars, keyVars,
                   pipeVars, sigVars>>

\* the steps of thread t
CallStep(t) ==
    \/ AddEntry(t)
    \/ AddOrInsert(t)
    \/ AddWrite(t)
    \/ AddValueUnlock(t)
    \/ AddReturn(t)
    \/ GetShard(t)
    \/ GetRead(t)
    \/ GetCurrent(t)
    \/ GetReturn(t)
    \/ IterNextShard(t)
    \/ IterValueRead(t)
    \/ IterValueUnlock(t)
    \/ IterReturn(t)
    \/ ClearLock(t)
    \/ ClearShard(t)

NextLock ==
    \/ \E t \in 1..MaxCallers : AddEntry(t)
    \/ \E t \in 1..MaxCallers : AddOrInsert(t)
    \/ \E t \in 1..MaxCallers : AddWrite(t)
    \/ \E t \in 1..MaxCallers : AddValueUnlock(t)
    \/ \E t \in 1..MaxCallers : AddReturn(t)
    \/ \E t \in 1..MaxCallers : GetShard(t)
    \/ \E t \in 1..MaxCallers : GetRead(t)
    \/ \E t \in 1..MaxCallers : GetCurrent(t)
    \/ \E t \in 1..MaxCallers : GetReturn(t)
    \/ \E t \in 1..MaxCallers : IterNextShard(t)
    \/ \E t \in 1..MaxCallers : IterValueRead(t)
    \/ \E t \in 1..MaxCallers : IterValueUnlock(t)
    \/ \E t \in 1..MaxCallers : IterReturn(t)
    \/ \E t \in 1..MaxCallers : ClearLock(t)
    \/ \E t \in 1..MaxCallers : ClearShard(t)

SpecLock == InitLock /\ [][NextLock]_vars

\* every thread is scheduled: a step of a thread that stays possible is
\* eventually taken
FairLock ==
    SpecLock /\ \A t \in 1..MaxCallers : WF_vars(CallStep(t))

AllReturned == \A t \in DOMAIN callers : callers[t].pc = "done"

\* C37: for any set of concurrent add, add_batch, get, all, keys and reset
\* calls, under every interleaving of the acquisitions of the shard locks
\* and the per-entry reader/writer locks, every call eventually returns.
C37_EveryCallReturns == <>AllReturned

\* an iteration holds the read lock of one shard and waits for the next
\* shard, which an add_point has write-locked
C37_Witness_IterWaitsForWriter ==
    \E t, u \in DOMAIN callers :
        /\ callers[t].op = "get_all_aggregates"
        /\ callers[t].pc = "iter"
        /\ callers[t].shard >= 1
        /\ callers[t].shard < NumShards
        /\ t \in shard_rw[callers[t].shard].readers
        /\ shard_rw[callers[t].shard + 1].writer = u
        /\ callers[u].op = "add_point"

====
